---- MODULE Spec2Model ----
(***************************************************************************)
(* Federated login and session issuance of the auth crate                  *)
(* (crates/auth/src: handlers.rs, repository.rs, sessions.rs, jwt.rs).     *)
(*                                                                         *)
(* Every inbound request is an independent task; the awaits of a handler   *)
(* are its suspension points, so each awaited call is one action.           *)
(* Strings that the code formats or parses (uuids, redis keys) are          *)
(* sequences of one-character strings; opaque strings are TLA+ strings.     *)
(***************************************************************************)
EXTENDS Integers, Sequences, FiniteSets, TLC

\* ---------------------------------------------------------------- bounds
NumReq == 2                     \* callback requests in flight
UuidDigits == 2                 \* hex digits of a uuid (32 in the program)
NumCalls == 3                   \* concurrent calls on an in-memory store
MaxFragments == 3               \* pieces a code description is made of
MaxSimpleTx == 2                \* records held by the in-memory service

\* ------------------------------------------------------- program constants
SessionTtlSecs == 60 * 60 * 24  \* sessions.rs:20, set_ex(.., 60 * 60 * 24)
JwtLifetimeSecs == 24 * 3600    \* jwt.rs:13, Duration::hours(24)
JwtLeewaySecs == 60             \* jwt.rs:26, Validation::new default leeway

Req == 1 .. NumReq

\* the instants the wall clock is observed at: around the start, around the
\* 24 hour expiry of what was issued at the start, and around the leeway
TimePoints ==
    {0, SessionTtlSecs - 1, SessionTtlSecs,
     JwtLifetimeSecs + JwtLeewaySecs, JwtLifetimeSecs + JwtLeewaySecs + 1}

Secrets == {"k1", "k2"}

\* what the identity provider answers for an authorization code: the profile
\* of the account the code was issued for
Accounts ==
    {[sub |-> "s1", email |-> "e1"],
     [sub |-> "s1", email |-> "e2"],
     [sub |-> "s2", email |-> "e1"]}

\* ------------------------------------------------- uuid <-> string (uuid crate)
HexLower == <<"0","1","2","3","4","5","6","7","8","9","a","b","c","d","e","f">>
HexUpper == <<"0","1","2","3","4","5","6","7","8","9","A","B","C","D","E","F">>

RECURSIVE Pow16(_)
Pow16(n) == IF n = 0 THEN 1 ELSE 16 * Pow16(n - 1)

UuidSpace == 0 .. (Pow16(UuidDigits) - 1)

\* Uuid::to_string: fixed width, lower-case hex
uuid_to_string(u) ==
    [i \in 1 .. UuidDigits |->
        HexLower[((u \div Pow16(UuidDigits - i)) % 16) + 1]]

HexVal(c) ==
    IF \E k \in 1 .. 16 : HexLower[k] = c
    THEN (CHOOSE k \in 1 .. 16 : HexLower[k] = c) - 1
    ELSE IF \E k \in 1 .. 16 : HexUpper[k] = c
    THEN (CHOOSE k \in 1 .. 16 : HexUpper[k] = c) - 1
    ELSE -1

RECURSIVE HexNum(_)
HexNum(s) ==
    IF Len(s) = 0 THEN 0
    ELSE 16 * HexNum(SubSeq(s, 1, Len(s) - 1)) + HexVal(s[Len(s)])

\* Uuid::parse_str(..).ok(): Some(uuid) or None
None == [some |-> FALSE]
Some(v) == [some |-> TRUE, val |-> v]

uuid_parse_str(s) ==
    IF Len(s) = UuidDigits /\ \A i \in 1 .. Len(s) : HexVal(s[i]) # -1
    THEN Some(HexNum(s))
    ELSE None

\* ----------------------------------------------------------- redis (SETEX/GET)
\* the store is a set of entries [key, value, expire_at]; one entry per key
RedisSetEx(store, key, value, ttl, t) ==
    {e \in store : e.key # key}
        \cup {[key |-> key, value |-> value, expire_at |-> t + ttl]}

RedisGet(store, key, t) ==
    IF \E e \in store : e.key = key /\ t < e.expire_at
    THEN Some((CHOOSE e \in store : e.key = key /\ t < e.expire_at).value)
    ELSE None

\* ------------------------------------------------------------- sessions.rs
SessionKey(session_id) == <<"s","e","s","s","i","o","n",":">> \o session_id

\* create_session as it would be with the session id stored as the value
create_session_stores_handle(store, session_uuid, user_id, t) ==
    RedisSetEx(store, SessionKey(uuid_to_string(session_uuid)),
               uuid_to_string(session_uuid), SessionTtlSecs, t)

\* create_session as it would be with set in place of set_ex: no expiry
create_session_no_expiry(store, session_uuid, user_id, t) ==
    {e \in store : e.key # SessionKey(uuid_to_string(session_uuid))}
        \cup {[key |-> SessionKey(uuid_to_string(session_uuid)),
                value |-> uuid_to_string(user_id),
                expire_at |-> t + 1000 * SessionTtlSecs]}

\* create_session as it would be with a ttl of one hour
create_session_one_hour(store, session_uuid, user_id, t) ==
    RedisSetEx(store, SessionKey(uuid_to_string(session_uuid)),
               uuid_to_string(user_id), 60 * 60, t)

\* create_session as it would be with one session per user: the user's
\* earlier sessions are dropped when a new one is made
create_session_single(store, session_uuid, user_id, t) ==
    RedisSetEx({e \in store : e.value # uuid_to_string(user_id)},
               SessionKey(uuid_to_string(session_uuid)),
               uuid_to_string(user_id), SessionTtlSecs, t)

\* create_session as it would be if the key did not depend on the generated
\* uuid: every session is written under the same key
create_session_reused_key(store, session_uuid, user_id, t) ==
    RedisSetEx(store, SessionKey(uuid_to_string(0)),
               uuid_to_string(user_id), SessionTtlSecs, t)

\* SessionStore::create_session, after the connection was obtained:
\* the store after set_ex
create_session(store, session_uuid, user_id, t) ==
    RedisSetEx(store, SessionKey(uuid_to_string(session_uuid)),
               uuid_to_string(user_id), SessionTtlSecs, t)

\* restore_session as it would be with the bare handle as the key
restore_session_bare_key(store, session_id, t) ==
    LET value == RedisGet(store, session_id, t)
    IN  IF value.some THEN uuid_parse_str(value.val) ELSE None

\* SessionStore::restore_session, after the connection was obtained
restore_session(store, session_id, t) ==
    LET value == RedisGet(store, SessionKey(session_id), t)
    IN  IF value.some THEN uuid_parse_str(value.val) ELSE None

\* ------------------------------------------------------------------ jwt.rs
Mac(secret, header, payload) ==
    [key |-> secret, header |-> header, payload |-> payload]

\* encode(&Header::new(alg), &claims, &EncodingKey::from_secret(secret))
JwtEncode(alg, claims, secret) ==
    LET header == [alg |-> alg, typ |-> "JWT"]
    IN  [header |-> header, payload |-> claims,
         signature |-> Mac(secret, header, claims)]

create_jwt(user_id, secret, t) ==
    JwtEncode("HS256",
              [sub |-> uuid_to_string(user_id), exp |-> t + JwtLifetimeSecs],
              secret)

Ok(v) == [ok |-> TRUE, val |-> v]
Err(e) == [ok |-> FALSE, err |-> e]

\* a token that does not split into header.payload.signature
MalformedToken == [malformed |-> TRUE]

\* verify_jwt as it would be with signature validation switched off
verify_jwt_unsigned(token, secret, t) ==
    IF token = MalformedToken THEN Err("InvalidToken")
    ELSE IF token.header.alg # "HS256" THEN Err("InvalidAlgorithm")
    ELSE IF token.payload.exp < t - JwtLeewaySecs THEN Err("ExpiredSignature")
    ELSE Ok(token.payload)

\* decode::<Claims>(token, &DecodingKey::from_secret(secret),
\*                  &Validation::new(Algorithm::HS256))
verify_jwt(token, secret, t) ==
    IF token = MalformedToken THEN Err("InvalidToken")
    ELSE IF token.header.alg # "HS256" THEN Err("InvalidAlgorithm")
    ELSE IF token.signature # Mac(secret, token.header, token.payload)
         THEN Err("InvalidSignature")
    ELSE IF token.payload.exp < t - JwtLeewaySecs THEN Err("ExpiredSignature")
    ELSE Ok(token.payload)


\* ----------------------------------------------------------- repository.rs
\* the users table's UNIQUE constraint on google_sub: would the row be
\* accepted by the table
UsersTableAccepts(users_table, row) ==
    ~ \E u \in users_table : u.google_sub = row.google_sub

\* find_by_google_sub as it would be with the email column in the WHERE clause
find_by_email(users_table, sub) ==
    IF \E u \in users_table : u.email = sub
    THEN Some(CHOOSE u \in users_table : u.email = sub)
    ELSE None

\* SqlxUserRepository::find_by_google_sub (fetch_optional): Some(row) | None
find_by_google_sub(users_table, sub) ==
    IF \E u \in users_table : u.google_sub = sub
    THEN Some(CHOOSE u \in users_table : u.google_sub = sub)
    ELSE None

\* create_user as it would be if the insert did not honour the constraint
create_user_unchecked(users_table, id, new_user, t) ==
    LET row == [id |-> id, google_sub |-> new_user.google_sub,
                email |-> new_user.email, created_at |-> t]
    IN  [ok |-> TRUE, user |-> row, table |-> users_table \cup {row}]

\* create_user as it would be if it bound the nil uuid in place of new_v4()
create_user_nil_id(users_table, id, new_user, t) ==
    LET row == [id |-> 0, google_sub |-> new_user.google_sub,
                email |-> new_user.email, created_at |-> t]
    IN  IF UsersTableAccepts(users_table, row)
        THEN [ok |-> TRUE, user |-> row, table |-> users_table \cup {row}]
        ELSE [ok |-> FALSE, user |-> row, table |-> users_table]

\* SqlxUserRepository::create_user: INSERT .. RETURNING with a fresh uuid;
\* the result and the table afterwards
create_user(users_table, id, new_user, t) ==
    LET row == [id |-> id, google_sub |-> new_user.google_sub,
                email |-> new_user.email, created_at |-> t]
    IN  IF UsersTableAccepts(users_table, row)
        THEN [ok |-> TRUE, user |-> row, table |-> users_table \cup {row}]
        ELSE [ok |-> FALSE, user |-> row, table |-> users_table]

\* SqlxUserRepository::get_user
get_user(users_table, user_id) ==
    IF \E u \in users_table : u.id = user_id
    THEN Some(CHOOSE u \in users_table : u.id = user_id)
    ELSE None

\* ---------------------------------------------------------------- oauth.rs
\* RedirectUrl::new(redirect_url) parses absolute urls only
UrlParses(url) == url \in {"https://app/cb", "redis://cache"}

\* build_google_client: Ok(client) | Err(ParseError)
build_google_client(client_id, client_secret, redirect_url) ==
    IF UrlParses(redirect_url)
    THEN Ok([client_id |-> client_id, redirect_uri |-> redirect_url])
    ELSE Err("ParseError")

\* SessionStore::new: redis::Client::open(redis_url)
SessionStoreNew(redis_url) ==
    IF UrlParses(redis_url) THEN Ok(redis_url) ELSE Err("InvalidClientConfig")

\* ------------------------------------------------------------- handlers.rs
\* the steps of google_callback, in program order
StepOrder ==
    <<"build_client", "exchange_code", "fetch_profile", "parse_profile",
      "find_user", "create_user", "connect_session_store", "create_session",
      "issue_jwt">>

Steps == {StepOrder[i] : i \in 1 .. Len(StepOrder)}

\* the error kinds with the two session arms answering the same kind
CallbackErrorKind_shared(step) ==
    CASE step = "build_client"          -> "oauth_client_error"
      [] step = "exchange_code"         -> "oauth_token_exchange_failed"
      [] step = "fetch_profile"         -> "user_info_fetch_failed"
      [] step = "parse_profile"         -> "user_info_parse_failed"
      [] step = "find_user"             -> "user_lookup_failed"
      [] step = "create_user"           -> "user_create_failed"
      [] step = "connect_session_store" -> "session_creation_failed"
      [] step = "create_session"        -> "session_creation_failed"
      [] step = "issue_jwt"             -> "jwt_issue_failed"

\* the error kind each failing match arm of google_callback returns
CallbackErrorKind(step) ==
    CASE step = "build_client"          -> "oauth_client_error"
      [] step = "exchange_code"         -> "oauth_token_exchange_failed"
      [] step = "fetch_profile"         -> "user_info_fetch_failed"
      [] step = "parse_profile"         -> "user_info_parse_failed"
      [] step = "find_user"             -> "user_lookup_failed"
      [] step = "create_user"           -> "user_create_failed"
      [] step = "connect_session_store" -> "redis_connection_failed"
      [] step = "create_session"        -> "session_creation_failed"
      [] step = "issue_jwt"             -> "jwt_issue_failed"

NoResponse == <<>>
NoUser == [id |-> -1, google_sub |-> "", email |-> "", created_at |-> -1]
NoAccount == [sub |-> "", email |-> ""]

VARIABLES
    settings,   \* Settings: fixed at start-up (config.rs)
    now,        \* wall clock, seconds
    next_uuid,  \* Uuid::new_v4(): every generated uuid is fresh
    users,      \* the users table behind SqlxUserRepository
    redis,      \* the key space behind SessionStore
    reqs,       \* the callback requests: position and locals of each
    mem_users,  \* InMemoryRepo.users: HashMap<Uuid, User>
    sub_index,  \* InMemoryRepo.sub_index: HashMap<String, Uuid>
    index_readers,  \* the calls holding a read guard of sub_index
    mem_calls,  \* the calls on the InMemoryRepo: position and locals of each
    versions,   \* BusinessCardStore.versions: HashMap<Uuid, Vec<..Version>>
    card_calls, \* the calls on the BusinessCardStore
    records,    \* TransactionStore.records: HashMap<Uuid, TransactionRecord>
    tx_calls,   \* the calls on the TransactionStore
    code_spec,  \* the CodeSpec handed to AutonomousCoderEngine::generate
    generated,  \* the GeneratedCode it returned, once it has
    transactions \* simple_lib.rs AppState.transactions: HashMap behind a Mutex

auth_vars == <<settings, now, next_uuid, users, redis, reqs>>
mem_vars == <<mem_users, sub_index, index_readers, mem_calls>>
card_vars == <<versions, card_calls>>
tx_vars == <<records, tx_calls>>
coder_vars == <<code_spec, generated>>
service_vars == <<coder_vars, transactions>>
collab_vars == <<mem_vars, card_vars, tx_vars, service_vars>>
vars == <<auth_vars, collab_vars>>

Caller == 1 .. NumCalls

\* a call that has not been made yet
IdleCall ==
    [op |-> "none", pc |-> "idle", sub |-> "", id |-> -1,
     created |-> [id |-> -1], result |-> [some |-> FALSE]]

\* the in-memory stores as Default::default() makes them, no call made
MemIdle ==
    /\ mem_users = {}
    /\ sub_index = {}
    /\ index_readers = {}
    /\ mem_calls = [c \in Caller |-> IdleCall]

\* a call on the BusinessCardStore that has not been made yet
IdleCardCall ==
    [op |-> "none", pc |-> "idle", card_id |-> -1, data |-> "",
     built |-> [id |-> -1], result |-> [some |-> FALSE]]

CardIdle ==
    /\ versions = {}
    /\ card_calls = [c \in Caller |-> IdleCardCall]

\* a call on the TransactionStore that has not been made yet
IdleTxCall ==
    [op |-> "none", pc |-> "idle", id |-> -1, status |-> "",
     built |-> [id |-> -1], result |-> [some |-> FALSE]]

TxIdle ==
    /\ records = {}
    /\ tx_calls = [c \in Caller |-> IdleTxCall]

\* no code was asked for and the simple transactions service holds nothing
NoCodeSpec == [description |-> <<>>, auto_mode |-> FALSE]

CoderIdle == code_spec = NoCodeSpec /\ generated = [some |-> FALSE]

SimpleIdle == transactions = {}

CollabIdle == MemIdle /\ CardIdle /\ TxIdle /\ CoderIdle /\ SimpleIdle

IdleReq ==
    [pc |-> "idle", token |-> NoAccount, http |-> "", user_info |-> NoAccount,
     user |-> NoUser, session_id |-> <<>>, response |-> NoResponse,
     steps |-> <<>>, failed_at |-> "none", created |-> FALSE,
     conflict |-> FALSE, session_at |-> -1, jwt_at |-> -1]

Init ==
    /\ settings \in [jwt_secret : {"k1"},
                     google_client_id : {"abc"},
                     google_client_secret : {"s3cr3t"},
                     google_redirect_url : {"https://app/cb", "app/cb"},
                     redis_url : {"redis://cache", "cache"}]
    /\ now = 0
    /\ next_uuid = 0
    /\ users = {}
    /\ redis = {}
    /\ reqs = [r \in Req |-> IdleReq]
    /\ CollabIdle

\* one more step of request r was executed
Did(q, step) == [q EXCEPT !.steps = Append(@, step)]

\* a failing arm that logs and builds the error but does not return
Fail_no_return(q, step) ==
    [q EXCEPT !.failed_at = step,
              !.response = [error |-> CallbackErrorKind(step)]]

\* a failing arm of the token exchange that sends the exchange once more
\* before giving up
Fail_retries_exchange(q, step) ==
    IF step = "exchange_code"
            /\ Cardinality({i \in 1 .. Len(q.steps) :
                                q.steps[i] = "exchange_code"}) < 2
    THEN [q EXCEPT !.pc = "exchange_code"]
    ELSE [q EXCEPT !.pc = "done", !.failed_at = step,
                   !.token = NoAccount, !.http = "",
                   !.response = [error |-> CallbackErrorKind(step)]]

\* a failing arm that puts the session handle made so far into the payload
Fail_echoes_session(q, step) ==
    [q EXCEPT !.pc = "done", !.failed_at = step,
              !.token = NoAccount, !.http = "",
              !.response = [error |-> CallbackErrorKind(step),
                            session_id |-> q.session_id]]

\* return Json(json!({"error": kind})) from the arm of `step`; the provider
\* token and the http response are dropped with the handler's frame
Fail(q, step) ==
    [q EXCEPT !.pc = "done", !.failed_at = step,
              !.token = NoAccount, !.http = "",
              !.response = [error |-> CallbackErrorKind(step)]]


\* --------------------------------------------------- google_callback, by await
\* google_login: the random anti-forgery state put into the authorization url
CsrfTokens == {"x1", "x2"}

\* OAuthCallbackQuery.state: absent, a value login-start issued, another value
QueryStates == {"absent", "other"} \cup CsrfTokens

\* the first step as it would be if the state parameter were required to be
\* a value login-start issued
CallbackBegin_checks_state(q, query_state) ==
    LET q0 == Did(q, "build_client")
        client == build_google_client(settings.google_client_id,
                                      settings.google_client_secret,
                                      settings.google_redirect_url)
    IN  IF query_state \notin CsrfTokens
        THEN [q0 EXCEPT !.pc = "done", !.failed_at = "build_client",
                        !.response = [error |-> "oauth_state_mismatch"]]
        ELSE IF client.ok THEN [q0 EXCEPT !.pc = "exchange_code"]
        ELSE Fail(q0, "build_client")

\* the request arrives with its query {code, state}; build_google_client;
\* exchange_code(query.code) is sent: the request's record after this step
CallbackBegin(q, query_state) ==
    LET q0 == Did(q, "build_client")
        client == build_google_client(settings.google_client_id,
                                      settings.google_client_secret,
                                      settings.google_redirect_url)
    IN  IF client.ok THEN [q0 EXCEPT !.pc = "exchange_code"]
        ELSE Fail(q0, "build_client")

CallbackStart(r) ==
    /\ reqs[r].pc = "idle"
    /\ \E query_state \in QueryStates :
            reqs' = [reqs EXCEPT ![r] = CallbackBegin(reqs[r], query_state)]
    /\ UNCHANGED <<collab_vars, settings, now, next_uuid, users, redis>>

\* the provider answers the token request: an access token for the account
\* the code was issued for, or the exchange fails
ExchangeCode(r) ==
    /\ reqs[r].pc = "exchange_code"
    /\ LET q0 == Did(reqs[r], "exchange_code")
       IN  \/ \E acct \in Accounts :
                reqs' = [reqs EXCEPT ![r] =
                    [q0 EXCEPT !.pc = "fetch_profile", !.token = acct]]
           \/ reqs' = [reqs EXCEPT ![r] = Fail(q0, "exchange_code")]
    /\ UNCHANGED <<collab_vars, settings, now, next_uuid, users, redis>>

\* reqwest send() of the userinfo request: Err on a transport failure, Ok on
\* every http response whatever its status
HttpOutcomes == {"2xx", "2xx_other_body", "non_2xx"}

FetchProfile(r) ==
    /\ reqs[r].pc = "fetch_profile"
    /\ LET q0 == Did(reqs[r], "fetch_profile")
       IN  \/ \E h \in HttpOutcomes :
                reqs' = [reqs EXCEPT ![r] =
                    [q0 EXCEPT !.pc = "parse_profile", !.http = h]]
           \/ reqs' = [reqs EXCEPT ![r] = Fail(q0, "fetch_profile")]
    /\ UNCHANGED <<collab_vars, settings, now, next_uuid, users, redis>>

\* response.json::<GoogleUserInfo>(): only the profile body has sub and email
ParseProfile(r) ==
    /\ reqs[r].pc = "parse_profile"
    /\ LET q0 == Did(reqs[r], "parse_profile")
       IN  reqs' = [reqs EXCEPT ![r] =
                IF q0.http = "2xx"
                THEN [q0 EXCEPT !.pc = "find_user", !.user_info = q0.token]
                ELSE Fail(q0, "parse_profile")]
    /\ UNCHANGED <<collab_vars, settings, now, next_uuid, users, redis>>

\* the lookup arm as it would be if it refreshed the stored email from the
\* provider profile when the user is found
FindUser_refreshes_email(r) ==
    /\ reqs[r].pc = "find_user"
    /\ LET q0 == Did(reqs[r], "find_user")
           found == find_by_google_sub(users, q0.user_info.sub)
           fresh == [found.val EXCEPT !.email = q0.user_info.email]
       IN  \/ /\ found.some
              /\ users' = (users \ {found.val}) \cup {fresh}
              /\ reqs' = [reqs EXCEPT ![r] =
                    [q0 EXCEPT !.pc = "open_session", !.user = fresh]]
           \/ /\ ~ found.some
              /\ users' = users
              /\ reqs' = [reqs EXCEPT ![r] = [q0 EXCEPT !.pc = "create_user"]]
           \/ /\ users' = users
              /\ reqs' = [reqs EXCEPT ![r] = Fail(q0, "find_user")]
    /\ UNCHANGED <<collab_vars, settings, now, next_uuid, redis>>

\* the lookup as it would be behind a lock held by a request from its lookup
\* to its insert: the lookup waits while another request is about to insert
FindUser_behind_lock(r) ==
    /\ reqs[r].pc = "find_user"
    /\ \A r2 \in Req \ {r} : reqs[r2].pc # "create_user"
    /\ LET q0 == Did(reqs[r], "find_user")
           found == find_by_google_sub(users, q0.user_info.sub)
       IN  \/ reqs' = [reqs EXCEPT ![r] =
                IF found.some
                THEN [q0 EXCEPT !.pc = "open_session", !.user = found.val]
                ELSE [q0 EXCEPT !.pc = "create_user"]]
           \/ reqs' = [reqs EXCEPT ![r] = Fail(q0, "find_user")]
    /\ UNCHANGED <<collab_vars, settings, now, next_uuid, users, redis>>

\* state.user_repo.find_by_google_sub(&user_info.sub)
FindUser(r) ==
    /\ reqs[r].pc = "find_user"
    /\ LET q0 == Did(reqs[r], "find_user")
           found == find_by_google_sub(users, q0.user_info.sub)
       IN  \/ reqs' = [reqs EXCEPT ![r] =
                IF found.some
                THEN [q0 EXCEPT !.pc = "open_session", !.user = found.val]
                ELSE [q0 EXCEPT !.pc = "create_user"]]
           \/ reqs' = [reqs EXCEPT ![r] = Fail(q0, "find_user")]
    /\ UNCHANGED <<collab_vars, settings, now, next_uuid, users, redis>>

\* state.user_repo.create_user(NewUser {google_sub, email})
CreateUser(r) ==
    /\ reqs[r].pc = "create_user"
    /\ next_uuid \in UuidSpace
    /\ LET q0 == Did(reqs[r], "create_user")
           res == create_user(users, next_uuid,
                              [google_sub |-> q0.user_info.sub,
                               email |-> q0.user_info.email], now)
       IN  \/ /\ users' = res.table
              /\ reqs' = [reqs EXCEPT ![r] =
                    IF res.ok
                    THEN [q0 EXCEPT !.pc = "open_session", !.user = res.user,
                                    !.created = TRUE]
                    ELSE [Fail(q0, "create_user") EXCEPT !.conflict = TRUE]]
           \/ \* the database cannot be reached
              /\ reqs' = [reqs EXCEPT ![r] = Fail(q0, "create_user")]
              /\ UNCHANGED users
    /\ next_uuid' = next_uuid + 1
    /\ UNCHANGED <<collab_vars, settings, now, redis>>

\* SessionStore::new(&state.settings.redis_url), store.create_session(user.id)
OpenSession(r) ==
    /\ reqs[r].pc = "open_session"
    /\ next_uuid \in UuidSpace
    /\ LET q0 == Did(reqs[r], "connect_session_store")
           store == SessionStoreNew(settings.redis_url)
           q1 == Did(q0, "create_session")
       IN  IF ~ store.ok
           THEN /\ reqs' = [reqs EXCEPT ![r] = Fail(q0, "connect_session_store")]
                /\ UNCHANGED <<next_uuid, redis>>
           ELSE /\ next_uuid' = next_uuid + 1
                /\ \/ /\ redis' = create_session(redis, next_uuid, q1.user.id, now)
                      /\ reqs' = [reqs EXCEPT ![r] =
                            [q1 EXCEPT !.pc = "issue_jwt",
                                       !.session_id = uuid_to_string(next_uuid),
                                       !.session_at = now]]
                   \/ \* get_async_connection or set_ex fails
                      /\ reqs' = [reqs EXCEPT ![r] = Fail(q1, "create_session")]
                      /\ UNCHANGED redis
    /\ UNCHANGED <<collab_vars, settings, now, users>>

\* IssueJwt as it would be with a compensating rollback: when create_jwt
\* fails the session written by the previous step is deleted
IssueJwt_rolls_back(r) ==
    /\ reqs[r].pc = "issue_jwt"
    /\ LET q0 == Did(reqs[r], "issue_jwt")
       IN  \/ /\ reqs' = [reqs EXCEPT ![r] =
                    [q0 EXCEPT !.pc = "done", !.jwt_at = now,
                        !.response =
                            [access_token |->
                                create_jwt(q0.user.id, settings.jwt_secret, now),
                             session_id |-> q0.session_id]]]
              /\ UNCHANGED redis
           \/ /\ reqs' = [reqs EXCEPT ![r] = Fail(q0, "issue_jwt")]
              /\ redis' = {e \in redis : e.key # SessionKey(q0.session_id)}
    /\ UNCHANGED <<collab_vars, settings, now, next_uuid, users>>

\* create_jwt(user.id, &state.settings.jwt_secret) and the AuthTokens response
IssueJwt(r) ==
    /\ reqs[r].pc = "issue_jwt"
    /\ LET q0 == Did(reqs[r], "issue_jwt")
       IN  \/ reqs' = [reqs EXCEPT ![r] =
                [q0 EXCEPT !.pc = "done", !.jwt_at = now,
                    !.response =
                        [access_token |->
                            create_jwt(q0.user.id, settings.jwt_secret, now),
                         session_id |-> q0.session_id]]]
           \/ reqs' = [reqs EXCEPT ![r] = Fail(q0, "issue_jwt")]
    /\ UNCHANGED <<collab_vars, settings, now, next_uuid, users, redis>>

\* --------------------------------------------------------- read-only handlers
\* login-start, verify and restore answer from the state and write nothing:
\* their actions leave every variable as it is, and their responses are the
\* operators below, evaluated in the state the request is served in
\* google_login: the authorization url; the anti-forgery state is in the url
\* and the CsrfToken itself is dropped (_csrf_token)
GoogleLoginResponse(csrf) ==
    LET client == build_google_client(settings.google_client_id,
                                      settings.google_client_secret,
                                      settings.google_redirect_url)
    IN  IF client.ok
        THEN [auth_url |->
                [client_id |-> client.val.client_id,
                 redirect_uri |-> client.val.redirect_uri,
                 scope |-> <<"openid", "email", "profile">>,
                 state |-> csrf]]
        ELSE [error |-> "oauth_client_error"]

GoogleLogin ==
    \E csrf \in CsrfTokens :
        LET response == GoogleLoginResponse(csrf)
        IN  UNCHANGED vars

\* verify_token as it would be if it accepted a token only while the session
\* store holds a live session of the token's subject
VerifyTokenResponse_session_bound(token) ==
    LET res == verify_jwt(token, settings.jwt_secret, now)
    IN  IF res.ok /\ \E e \in redis : e.value = res.val.sub /\ now < e.expire_at
        THEN [user_id |-> res.val.sub]
        ELSE [error |-> "invalid_token"]

\* verify_token
VerifyTokenResponse(token) ==
    LET res == verify_jwt(token, settings.jwt_secret, now)
    IN  IF res.ok THEN [user_id |-> res.val.sub]
        ELSE [error |-> "invalid_token"]

IssuedTokens ==
    {reqs[r].response.access_token :
        r \in {x \in Req : "access_token" \in DOMAIN reqs[x].response}}

\* what a caller may present: the issued tokens, and for each of them the
\* same claims signed with another secret, another subject under the
\* original signature, and another algorithm in the header
TokenInputs ==
    IssuedTokens
    \cup {JwtEncode("HS256", t.payload, s) : t \in IssuedTokens, s \in Secrets}
    \cup {[t EXCEPT !.payload.sub = uuid_to_string(0)] : t \in IssuedTokens}
    \cup {[t EXCEPT !.header.alg = "none"] : t \in IssuedTokens}
    \cup {MalformedToken}

VerifyToken ==
    \E token \in TokenInputs :
        LET response == VerifyTokenResponse(token)
        IN  UNCHANGED vars

\* restore_session (handler): connect, restore the handle, load the user
StoreOutcomes == {"ok", "unreachable"}
RepoOutcomes == {"ok", "unreachable"}

\* the handler as it would be if a failed read of the store were taken for an
\* absent key
RestoreSessionResponse_read_error(session_id, store_outcome, repo_outcome) ==
    LET store == SessionStoreNew(settings.redis_url)
        user_id == restore_session(redis, session_id, now)
        user == get_user(users, user_id.val)
    IN  IF ~ store.ok THEN [error |-> "redis_connection_failed"]
        ELSE IF store_outcome # "ok" THEN [error |-> "session_not_found"]
        ELSE IF ~ user_id.some THEN [error |-> "session_not_found"]
        ELSE IF repo_outcome # "ok" THEN [error |-> "user_lookup_failed"]
        ELSE IF ~ user.some THEN [error |-> "user_not_found"]
        ELSE [user |-> user.val]

RestoreSessionResponse(session_id, store_outcome, repo_outcome) ==
    LET store == SessionStoreNew(settings.redis_url)
        user_id == restore_session(redis, session_id, now)
        user == get_user(users, user_id.val)
    IN  IF ~ store.ok THEN [error |-> "redis_connection_failed"]
        ELSE IF store_outcome # "ok" THEN [error |-> "session_restore_failed"]
        ELSE IF ~ user_id.some THEN [error |-> "session_not_found"]
        ELSE IF repo_outcome # "ok" THEN [error |-> "user_lookup_failed"]
        ELSE IF ~ user.some THEN [error |-> "user_not_found"]
        ELSE [user |-> user.val]

\* handles a caller may present: the string form of every uuid generated so
\* far and of the next one, and a string that is no uuid
HandleInputs ==
    {uuid_to_string(u) : u \in (0 .. next_uuid) \cap UuidSpace}
        \cup {<<"z", "z">>}

\* restore as it would be with a sliding expiry: a restored session gets a
\* new TTL
RestoreSession_renews_ttl ==
    /\ \E h \in HandleInputs :
            redis' = {IF e.key = SessionKey(h) /\ now < e.expire_at
                      THEN [e EXCEPT !.expire_at = now + SessionTtlSecs]
                      ELSE e : e \in redis}
    /\ UNCHANGED <<collab_vars, settings, now, next_uuid, users, reqs>>

RestoreSession ==
    \E h \in HandleInputs :
        LET responses == {RestoreSessionResponse(h, so, ro) :
                            so \in StoreOutcomes, ro \in RepoOutcomes}
        IN  UNCHANGED vars

\* ------------------------------------------------------------------ the clock
Tick ==
    /\ \E t \in TimePoints : t > now /\ now' = t
    /\ UNCHANGED <<collab_vars, settings, next_uuid, users, redis, reqs>>

Next ==
    \/ \E r \in Req : CallbackStart(r)
    \/ \E r \in Req : ExchangeCode(r)
    \/ \E r \in Req : FetchProfile(r)
    \/ \E r \in Req : ParseProfile(r)
    \/ \E r \in Req : FindUser(r)
    \/ \E r \in Req : CreateUser(r)
    \/ \E r \in Req : OpenSession(r)
    \/ \E r \in Req : IssueJwt(r)
    \/ GoogleLogin
    \/ VerifyToken
    \/ RestoreSession
    \/ Tick

Spec == Init /\ [][Next]_vars


\* the callbacks alone: no clock, no read-only request
NextLogin ==
    \/ \E r \in Req : CallbackStart(r)
    \/ \E r \in Req : ExchangeCode(r)
    \/ \E r \in Req : FetchProfile(r)
    \/ \E r \in Req : ParseProfile(r)
    \/ \E r \in Req : FindUser(r)
    \/ \E r \in Req : CreateUser(r)
    \/ \E r \in Req : OpenSession(r)
    \/ \E r \in Req : IssueJwt(r)

SpecLogin == Init /\ [][NextLogin]_vars

\* the callbacks with every awaited call returning: a request that has
\* arrived and not yet answered is resumed when the call it awaits returns
RequestStep(r) ==
    \/ ExchangeCode(r)
    \/ FetchProfile(r)
    \/ ParseProfile(r)
    \/ FindUser(r)
    \/ CreateUser(r)
    \/ OpenSession(r)
    \/ IssueJwt(r)

SpecLoginFair == SpecLogin /\ \A r \in Req : WF_vars(RequestStep(r))

\* the service started against a database and a redis that hold what earlier
\* runs and other clients of the two servers left there: any users table and
\* any set of session keys, with a user row or without one for the id a
\* session is bound to; the restore endpoint is served as time passes
StoredUsers ==
    {[id |-> 0, google_sub |-> "s1", email |-> "e1", created_at |-> 0],
     [id |-> 1, google_sub |-> "s2", email |-> "e1", created_at |-> 0]}

StoredSessions ==
    {[key |-> SessionKey(uuid_to_string(h)), value |-> uuid_to_string(u),
      expire_at |-> SessionTtlSecs] : h \in {2, 3}, u \in {0, 1}}

InitRestore ==
    /\ settings \in [jwt_secret : {"k1"},
                     google_client_id : {"abc"},
                     google_client_secret : {"s3cr3t"},
                     google_redirect_url : {"https://app/cb", "app/cb"},
                     redis_url : {"redis://cache", "cache"}]
    /\ now = 0
    /\ next_uuid = 4
    /\ users \in SUBSET StoredUsers
    /\ redis \in {S \in SUBSET StoredSessions :
                    \A e1, e2 \in S : e1.key = e2.key => e1 = e2}
    /\ reqs = [r \in Req |-> IdleReq]
    /\ CollabIdle

NextRestore ==
    \/ RestoreSession
    \/ Tick

SpecRestore == InitRestore /\ [][NextRestore]_vars

\* ------------------------------------------------ models.rs: User as json
\* serde_json::to_string of SessionRestoreResponse {user: User}: the text,
\* character by character; a uuid is written in its string form, created_at
\* with the digits of its seconds
Quoted(s) == <<"\"">> \o s \o <<"\"">>

RECURSIVE Decimal(_)
Decimal(n) ==
    IF n < 10 THEN <<HexLower[n + 1]>>
    ELSE Decimal(n \div 10) \o <<HexLower[(n % 10) + 1]>>

KeyUser == <<"u","s","e","r">>
KeyId == <<"i","d">>
KeyGoogleSub == <<"g","o","o","g","l","e","_","s","u","b">>
KeyEmail == <<"e","m","a","i","l">>
KeyCreatedAt == <<"c","r","e","a","t","e","d","_","a","t">>
KeyAccessToken == <<"a","c","c","e","s","s","_","t","o","k","e","n">>
KeyRefreshToken == <<"r","e","f","r","e","s","h","_","t","o","k","e","n">>

\* User as it would serialize if the struct had an access_token field
SerializeUser_with_token(u) ==
    <<"{">> \o Quoted(KeyId) \o <<":">> \o Quoted(uuid_to_string(u.id))
        \o <<",">> \o Quoted(KeyGoogleSub) \o <<":">> \o Quoted(u.google_sub)
        \o <<",">> \o Quoted(KeyEmail) \o <<":">> \o Quoted(u.email)
        \o <<",">> \o Quoted(KeyCreatedAt) \o <<":">>
        \o Quoted(Decimal(u.created_at))
        \o <<",">> \o Quoted(KeyAccessToken) \o <<":">> \o Quoted(<<"t">>)
        \o <<"}">>

\* #[derive(Serialize)] struct User {id, google_sub, email, created_at}
SerializeUser(u) ==
    <<"{">> \o Quoted(KeyId) \o <<":">> \o Quoted(uuid_to_string(u.id))
        \o <<",">> \o Quoted(KeyGoogleSub) \o <<":">> \o Quoted(u.google_sub)
        \o <<",">> \o Quoted(KeyEmail) \o <<":">> \o Quoted(u.email)
        \o <<",">> \o Quoted(KeyCreatedAt) \o <<":">>
        \o Quoted(Decimal(u.created_at))
        \o <<"}">>

\* #[derive(Serialize)] struct SessionRestoreResponse {user}
SerializeRestoreResponse(resp) ==
    <<"{">> \o Quoted(KeyUser) \o <<":">> \o SerializeUser(resp.user)
        \o <<"}">>

\* the users table found at start-up, subject and email spelled out: the
\* provider decides both strings
ProfileUsers ==
    {[id |-> 0, google_sub |-> <<"1","0","7">>,
      email |-> <<"a","@","b">>, created_at |-> 0],
     [id |-> 1, google_sub |-> <<"2","0","8">>,
      email |-> KeyAccessToken \o <<"@","b">>, created_at |-> 12]}

InitProfile ==
    /\ settings \in [jwt_secret : {"k1"},
                     google_client_id : {"abc"},
                     google_client_secret : {"s3cr3t"},
                     google_redirect_url : {"https://app/cb", "app/cb"},
                     redis_url : {"redis://cache", "cache"}]
    /\ now = 0
    /\ next_uuid = 4
    /\ users \in SUBSET ProfileUsers
    /\ redis \in {S \in SUBSET StoredSessions :
                    \A e1, e2 \in S : e1.key = e2.key => e1 = e2}
    /\ reqs = [r \in Req |-> IdleReq]
    /\ CollabIdle

SpecProfile == InitProfile /\ [][NextRestore]_vars

\* ------------------------------------ repository.rs, mod tests: InMemoryRepo
\* std HashMap as a set of [key, value] entries, one per key
MapInsert(map, k, v) ==
    {e \in map : e.key # k} \cup {[key |-> k, value |-> v]}

MapGet(map, k) ==
    IF \E e \in map : e.key = k
    THEN Some((CHOOSE e \in map : e.key = k).value)
    ELSE None

MapValues(map) == {e.value : e \in map}

\* the settings of a service whose in-memory store is exercised
DefaultSettings ==
    [jwt_secret |-> "k1", google_client_id |-> "abc",
     google_client_secret |-> "s3cr3t",
     google_redirect_url |-> "https://app/cb", redis_url |-> "redis://cache"]

\* the auth service at rest: no request, empty stores, the clock at 0
AuthIdle ==
    /\ settings = DefaultSettings
    /\ now = 0
    /\ next_uuid = 0
    /\ users = {}
    /\ redis = {}
    /\ reqs = [r \in Req |-> IdleReq]

InitMem == AuthIdle /\ CollabIdle

\* self.sub_index.write().await.insert(created.google_sub.clone(), created.id)
IndexInsert(index, sub, id) == MapInsert(index, sub, id)

\* index.get(sub).and_then(|id| users.get(id).cloned())
MemFind(index, table, sub) ==
    LET id == MapGet(index, sub)
    IN  IF id.some THEN MapGet(table, id.val) ELSE None

\* InMemoryRepo::create_user is called: the User is built with a new uuid;
\* the call goes on to sub_index.write().await
MemCreateStart(c) ==
    /\ mem_calls[c].pc = "idle"
    /\ next_uuid \in UuidSpace
    /\ \E acct \in Accounts :
            mem_calls' = [mem_calls EXCEPT ![c] =
                [@ EXCEPT !.op = "create_user", !.pc = "index_write",
                          !.sub = acct.sub,
                          !.created = [id |-> next_uuid,
                                       google_sub |-> acct.sub,
                                       email |-> acct.email,
                                       created_at |-> now]]]
    /\ next_uuid' = next_uuid + 1
    /\ UNCHANGED <<settings, now, users, redis, reqs>>
    /\ UNCHANGED <<mem_users, sub_index, index_readers>>
    /\ UNCHANGED <<service_vars, card_vars, tx_vars>>

\* the write guard of sub_index is granted once no read guard is out; the
\* entry is inserted and the guard dropped at the end of the statement
MemCreateIndex(c) ==
    /\ mem_calls[c].pc = "index_write"
    /\ index_readers = {}
    /\ sub_index' = IndexInsert(sub_index, mem_calls[c].created.google_sub,
                                mem_calls[c].created.id)
    /\ mem_calls' = [mem_calls EXCEPT ![c].pc = "users_write"]
    /\ UNCHANGED <<auth_vars, mem_users, index_readers>>
    /\ UNCHANGED <<service_vars, card_vars, tx_vars>>

\* self.users.write().await.insert(created.id, created.clone()); Ok(created)
MemCreateUsers(c) ==
    /\ mem_calls[c].pc = "users_write"
    /\ mem_users' = MapInsert(mem_users, mem_calls[c].created.id,
                              mem_calls[c].created)
    /\ mem_calls' = [mem_calls EXCEPT ![c] =
            [@ EXCEPT !.pc = "done", !.result = Some(mem_calls[c].created)]]
    /\ UNCHANGED <<auth_vars, sub_index, index_readers>>
    /\ UNCHANGED <<service_vars, card_vars, tx_vars>>

\* InMemoryRepo::find_by_google_sub is called: the read guard of sub_index
\* is taken and held; the call goes on to users.read().await
MemFindStart(c) ==
    /\ mem_calls[c].pc = "idle"
    /\ \E sub \in {a.sub : a \in Accounts} :
            mem_calls' = [mem_calls EXCEPT ![c] =
                [@ EXCEPT !.op = "find_by_google_sub", !.pc = "users_read",
                          !.sub = sub]]
    /\ index_readers' = index_readers \cup {c}
    /\ UNCHANGED <<auth_vars, mem_users, sub_index>>
    /\ UNCHANGED <<service_vars, card_vars, tx_vars>>

\* find_by_google_sub as it would be if it asked for exclusive access to
\* sub_index while still holding its read guard
MemFindFinish_upgrades(c) ==
    /\ mem_calls[c].pc = "users_read"
    /\ index_readers = {c}
    /\ mem_calls' = [mem_calls EXCEPT ![c] =
            [@ EXCEPT !.pc = "done",
                      !.result = MemFind(sub_index, mem_users,
                                          mem_calls[c].sub)]]
    /\ index_readers' = index_readers \ {c}
    /\ UNCHANGED <<auth_vars, mem_users, sub_index>>
    /\ UNCHANGED <<service_vars, card_vars, tx_vars>>

\* the read guard of users is taken, the lookup is answered and both guards
\* are dropped
MemFindFinish(c) ==
    /\ mem_calls[c].pc = "users_read"
    /\ mem_calls' = [mem_calls EXCEPT ![c] =
            [@ EXCEPT !.pc = "done",
                      !.result = MemFind(sub_index, mem_users,
                                          mem_calls[c].sub)]]
    /\ index_readers' = index_readers \ {c}
    /\ UNCHANGED <<auth_vars, mem_users, sub_index>>
    /\ UNCHANGED <<service_vars, card_vars, tx_vars>>

\* InMemoryRepo::get_user: self.users.read().await.get(&user_id).cloned()
MemGetUser(c) ==
    /\ mem_calls[c].pc = "idle"
    /\ \E id \in (0 .. next_uuid) \cap UuidSpace :
            mem_calls' = [mem_calls EXCEPT ![c] =
                [@ EXCEPT !.op = "get_user", !.pc = "done", !.id = id,
                          !.result = MapGet(mem_users, id)]]
    /\ UNCHANGED <<auth_vars, mem_users, sub_index, index_readers>>
    /\ UNCHANGED <<service_vars, card_vars, tx_vars>>

NextMem ==
    \/ \E c \in Caller : MemCreateStart(c)
    \/ \E c \in Caller : MemCreateIndex(c)
    \/ \E c \in Caller : MemCreateUsers(c)
    \/ \E c \in Caller : MemFindStart(c)
    \/ \E c \in Caller : MemFindFinish(c)
    \/ \E c \in Caller : MemGetUser(c)

SpecMem == InitMem /\ [][NextMem]_vars

\* the steps a call takes once it was made: each is the grant of a guard by
\* a tokio RwLock, which serves its waiters in order, so a call that can be
\* granted its guard is not passed over for ever
MemStep(c) == MemCreateIndex(c) \/ MemCreateUsers(c) \/ MemFindFinish(c)

SpecMemFair == SpecMem /\ \A c \in Caller : WF_vars(MemStep(c))

\* ------------------------------------------------ the business-card store
\* BusinessCardData is carried through the store untouched
CardData == {"card_a", "card_b"}

\* an id no create_card call has produced
UnknownCardId == Pow16(UuidDigits) - 1

\* store.rs:23, the map after create_card's insert
create_card(map, version) == MapInsert(map, version.card_id, <<version>>)

update_card_overwrites(map, card_id, data, id, t) ==
    LET entry == MapGet(map, card_id)
    IN  IF ~entry.some
        THEN [result |-> None, versions |-> map]
        ELSE LET version == [id |-> id, card_id |-> card_id, data |-> data,
                             version |-> 2, created_at |-> t]
             IN  [result |-> Some(version),
                  versions |-> MapInsert(map, card_id, <<version>>)]

\* update_card as it would be with an upsert: an id that names no card gets
\* a history that starts with the new version
update_card_upserts(map, card_id, data, id, t) ==
    LET entry == MapGet(map, card_id)
        earlier == IF entry.some THEN entry.val ELSE <<>>
        version == [id |-> id, card_id |-> card_id, data |-> data,
                    version |-> Len(earlier) + 1, created_at |-> t]
    IN  [result |-> Some(version),
         versions |-> MapInsert(map, card_id, Append(earlier, version))]

\* store.rs:28-39, the body update_card runs under the write guard: what it
\* returns and what the map holds afterwards (a history has at most one
\* version per call made, far below the width of the u32 version number)
update_card(map, card_id, data, id, t) ==
    LET entry == MapGet(map, card_id)
    IN  IF ~entry.some
        THEN [result |-> None, versions |-> map]
        ELSE LET next_version ==
                     IF Len(entry.val) = 0
                     THEN 1
                     ELSE entry.val[Len(entry.val)].version + 1
                 version == [id |-> id, card_id |-> card_id, data |-> data,
                             version |-> next_version, created_at |-> t]
             IN  [result |-> Some(version),
                  versions |->
                      MapInsert(map, card_id, Append(entry.val, version))]

\* store.rs:42-49
history(map, card_id) ==
    LET entry == MapGet(map, card_id)
    IN  IF entry.some THEN entry.val ELSE <<>>

\* the card ids create_card has returned to some caller
KnownCardIds ==
    {card_calls[c].card_id :
        c \in {d \in Caller : /\ card_calls[d].op = "create_card"
                              /\ card_calls[d].pc = "done"}}

InitCards == AuthIdle /\ CollabIdle

\* create_card up to its await: both ids and the first version are made
CreateCardStart(c) ==
    /\ card_calls[c].pc = "idle"
    /\ next_uuid + 1 < UnknownCardId
    /\ \E data \in CardData :
            card_calls' = [card_calls EXCEPT ![c] =
                [@ EXCEPT !.op = "create_card", !.pc = "write",
                          !.card_id = next_uuid, !.data = data,
                          !.built = [id |-> next_uuid + 1,
                                     card_id |-> next_uuid,
                                     data |-> data,
                                     version |-> 1,
                                     created_at |-> now]]]
    /\ next_uuid' = next_uuid + 2
    /\ UNCHANGED <<settings, now, users, redis, reqs>>
    /\ UNCHANGED <<service_vars, mem_vars, versions, tx_vars>>

\* the write guard is granted, the history is inserted, the version returned
CreateCardWrite(c) ==
    /\ card_calls[c].op = "create_card"
    /\ card_calls[c].pc = "write"
    /\ versions' = create_card(versions, card_calls[c].built)
    /\ card_calls' = [card_calls EXCEPT ![c] =
            [@ EXCEPT !.pc = "done", !.result = Some(card_calls[c].built)]]
    /\ UNCHANGED <<service_vars, auth_vars, mem_vars, tx_vars>>

\* update_card is called with the id of a card some create_card returned, or
\* with an id that names no card, and waits for the write guard
UpdateCardStart(c) ==
    /\ card_calls[c].pc = "idle"
    /\ \E card_id \in KnownCardIds \cup {UnknownCardId}, data \in CardData :
            card_calls' = [card_calls EXCEPT ![c] =
                [@ EXCEPT !.op = "update_card", !.pc = "write",
                          !.card_id = card_id, !.data = data]]
    /\ UNCHANGED <<service_vars, auth_vars, mem_vars, versions, tx_vars>>

\* the write guard is granted and held for the whole body
UpdateCardWrite(c) ==
    /\ card_calls[c].op = "update_card"
    /\ card_calls[c].pc = "write"
    /\ next_uuid < UnknownCardId
    /\ LET out == update_card(versions, card_calls[c].card_id,
                              card_calls[c].data, next_uuid, now)
       IN  /\ versions' = out.versions
           /\ card_calls' = [card_calls EXCEPT ![c] =
                    [@ EXCEPT !.pc = "done", !.result = out.result]]
           /\ next_uuid' = IF out.result.some THEN next_uuid + 1
                                              ELSE next_uuid
    /\ UNCHANGED <<settings, now, users, redis, reqs>>
    /\ UNCHANGED <<service_vars, mem_vars, tx_vars>>

\* history reads the map and changes nothing
CardHistory ==
    \E card_id \in KnownCardIds \cup {UnknownCardId} :
        LET listed == history(versions, card_id)
        IN  UNCHANGED vars

NextCards ==
    \/ \E c \in Caller : CreateCardStart(c)
    \/ \E c \in Caller : CreateCardWrite(c)
    \/ \E c \in Caller : UpdateCardStart(c)
    \/ \E c \in Caller : UpdateCardWrite(c)
    \/ CardHistory
    \/ Tick

SpecCards == InitCards /\ [][NextCards]_vars

\* -------------------------------------------------- the transaction store
\* models.rs:6-10
TransactionStatus == {"Pending", "Confirmed", "Failed"}

\* the user ids the callers pass in CreateTransactionRequest
TxUsers == {"user_a", "user_b"}

\* amount and to_address are carried through the store untouched
TxAmount == "100"
TxToAddress == "0x00"

\* an id no record_transaction call has produced
UnknownTxId == Pow16(UuidDigits) - 1

\* store.rs:25, the map after record_transaction's insert
record_transaction(map, record) == MapInsert(map, record.id, record)

update_status_on_copy(map, id, status, t) ==
    LET entry == MapGet(map, id)
    IN  IF ~entry.some
        THEN [result |-> None, records |-> map]
        ELSE [result |-> Some([entry.val EXCEPT !.status = status,
                                                !.updated_at = t]),
              records |-> map]

\* update_status as it would be with a lifecycle order: a record that has
\* left Pending is final and the call is refused
update_status_forward_only(map, id, status, t) ==
    LET entry == MapGet(map, id)
    IN  IF ~entry.some \/ entry.val.status # "Pending"
        THEN [result |-> None, records |-> map]
        ELSE LET record == [entry.val EXCEPT !.status = status,
                                             !.updated_at = t]
             IN  [result |-> Some(record),
                  records |-> MapInsert(map, id, record)]

\* store.rs:34-38, the body update_status runs under the write guard: what
\* it returns and what the map holds afterwards
update_status(map, id, status, t) ==
    LET entry == MapGet(map, id)
    IN  IF ~entry.some
        THEN [result |-> None, records |-> map]
        ELSE LET record == [entry.val EXCEPT !.status = status,
                                             !.updated_at = t]
             IN  [result |-> Some(record),
                  records |-> MapInsert(map, id, record)]

list_by_user_unfiltered(map, user_id) == MapValues(map)

\* store.rs:41-49; the Vec is collected in the iteration order of the map,
\* which is unspecified, and holds each record of the map at most once
list_by_user(map, user_id) ==
    {record \in MapValues(map) : record.user_id = user_id}

\* the record ids record_transaction has returned to some caller
KnownTxIds ==
    {tx_calls[c].id :
        c \in {d \in Caller : /\ tx_calls[d].op = "record_transaction"
                              /\ tx_calls[d].pc = "done"}}

InitTx == AuthIdle /\ CollabIdle

\* record_transaction up to its await: the clock is read once and the record
\* built with a new id
RecordStart(c) ==
    /\ tx_calls[c].pc = "idle"
    /\ next_uuid < UnknownTxId
    /\ \E user_id \in TxUsers :
            tx_calls' = [tx_calls EXCEPT ![c] =
                [@ EXCEPT !.op = "record_transaction", !.pc = "write",
                          !.id = next_uuid,
                          !.built = [id |-> next_uuid,
                                     user_id |-> user_id,
                                     amount |-> TxAmount,
                                     to_address |-> TxToAddress,
                                     status |-> "Pending",
                                     created_at |-> now,
                                     updated_at |-> now]]]
    /\ next_uuid' = next_uuid + 1
    /\ UNCHANGED <<settings, now, users, redis, reqs>>
    /\ UNCHANGED <<service_vars, mem_vars, card_vars, records>>

\* the write guard is granted, the record is inserted and returned
RecordWrite(c) ==
    /\ tx_calls[c].op = "record_transaction"
    /\ tx_calls[c].pc = "write"
    /\ records' = record_transaction(records, tx_calls[c].built)
    /\ tx_calls' = [tx_calls EXCEPT ![c] =
            [@ EXCEPT !.pc = "done", !.result = Some(tx_calls[c].built)]]
    /\ UNCHANGED <<service_vars, auth_vars, mem_vars, card_vars>>

\* update_status is called with the id of a record some record_transaction
\* returned, or with an id that names no record, and waits for the guard
UpdateStatusStart(c) ==
    /\ tx_calls[c].pc = "idle"
    /\ \E id \in KnownTxIds \cup {UnknownTxId}, status \in TransactionStatus :
            tx_calls' = [tx_calls EXCEPT ![c] =
                [@ EXCEPT !.op = "update_status", !.pc = "write",
                          !.id = id, !.status = status]]
    /\ UNCHANGED <<service_vars, auth_vars, mem_vars, card_vars, records>>

\* the write guard is granted and held for the whole body
UpdateStatusWrite(c) ==
    /\ tx_calls[c].op = "update_status"
    /\ tx_calls[c].pc = "write"
    /\ LET out == update_status(records, tx_calls[c].id,
                                tx_calls[c].status, now)
       IN  /\ records' = out.records
           /\ tx_calls' = [tx_calls EXCEPT ![c] =
                    [@ EXCEPT !.pc = "done", !.result = out.result]]
    /\ UNCHANGED <<service_vars, auth_vars, mem_vars, card_vars>>

\* list_by_user reads the map and changes nothing
ListByUser ==
    \E user_id \in TxUsers :
        LET listed == list_by_user(records, user_id)
        IN  UNCHANGED vars

NextTx ==
    \/ \E c \in Caller : RecordStart(c)
    \/ \E c \in Caller : RecordWrite(c)
    \/ \E c \in Caller : UpdateStatusStart(c)
    \/ \E c \in Caller : UpdateStatusWrite(c)
    \/ ListByUser
    \/ Tick

SpecTx == InitTx /\ [][NextTx]_vars

\* ------------------------------------------------- the autonomous coder
\* the pieces descriptions are put together from: halves of the two screened
\* phrases, so that a phrase can straddle a joint, an upper-case and a
\* double-space variant, and harmless text
Fragments ==
    {<<"r", "m">>,
     <<" ", "-", "r", "f">>,
     <<"r", "m", " ", "-">>,
     <<"r", "f">>,
     <<"d", "r", "o", "p">>,
     <<" ", "d", "a", "t", "a", "b", "a", "s", "e">>,
     <<"d", "r", "o", "p", " ", "d", "a", "t", "a">>,
     <<"b", "a", "s", "e">>,
     <<"D", "R", "O", "P", " ", "D", "A", "T", "A", "B", "A", "S", "E">>,
     <<"r", "m", " ", " ", "-", "r", "f">>,
     <<"a", "d", "d", " ", "a", " ", "p", "a", "r", "s", "e", "r">>,
     <<" ", "f", "o", "r", " ", "l", "o", "g", "s">>}

\* every description of at most MaxFragments pieces
RECURSIVE DescriptionsOf(_)
DescriptionsOf(n) ==
    IF n = 0
    THEN {<<>>}
    ELSE LET shorter == DescriptionsOf(n - 1)
         IN  shorter \cup {d \o f : d \in shorter, f \in Fragments}

CodeSpecs ==
    [description : DescriptionsOf(MaxFragments), auto_mode : BOOLEAN]

\* engine.rs:10, format!("// Generated code\n// {}\n", spec.description)
CodeHeader == <<"/", "/", " ", "G", "e", "n", "e", "r", "a", "t", "e", "d", " ", "c", "o", "d", "e", "\n", "/", "/", " ">>
CodeTrailer == <<"\n">>

\* engine.rs:12, the two phrases str::contains is asked for
PhraseRmRf == <<"r", "m", " ", "-", "r", "f">>
PhraseDropDatabase == <<"d", "r", "o", "p", " ", "d", "a", "t", "a", "b", "a", "s", "e">>

\* str::contains: pat occurs in text as a contiguous run of characters
StrContains(text, pat) ==
    \E i \in 1 .. (Len(text) - Len(pat) + 1) :
        SubSeq(text, i, i + Len(pat) - 1) = pat

generate_unscreened(spec, id) ==
    [id |-> id,
     code |-> CodeHeader \o spec.description \o CodeTrailer,
     tests_passed |-> TRUE,
     security_passed |-> spec.auto_mode]

generate_ignores_mode(spec, id) ==
    LET code == CodeHeader \o spec.description \o CodeTrailer
    IN  [id |-> id,
         code |-> code,
         tests_passed |-> TRUE,
         security_passed |-> /\ ~ StrContains(code, PhraseRmRf)
                             /\ ~ StrContains(code, PhraseDropDatabase)]

\* engine.rs:9-20, AutonomousCoderEngine::generate
generate(spec, id) ==
    LET code == CodeHeader \o spec.description \o CodeTrailer
        tests_passed == TRUE
        security_passed == /\ ~ StrContains(code, PhraseRmRf)
                           /\ ~ StrContains(code, PhraseDropDatabase)
    IN  [id |-> id,
         code |-> code,
         tests_passed |-> tests_passed,
         security_passed |-> IF spec.auto_mode THEN security_passed
                                               ELSE FALSE]

\* a request for code has arrived with any spec
InitCoder ==
    /\ AuthIdle
    /\ MemIdle /\ CardIdle /\ TxIdle /\ SimpleIdle
    /\ code_spec \in CodeSpecs
    /\ generated = None

\* main.rs:24-29, generate_code: Json(engine.generate(request.spec))
GenerateCode ==
    /\ ~ generated.some
    /\ next_uuid \in UuidSpace
    /\ generated' = Some(generate(code_spec, next_uuid))
    /\ next_uuid' = next_uuid + 1
    /\ UNCHANGED <<settings, now, users, redis, reqs>>
    /\ UNCHANGED <<mem_vars, card_vars, tx_vars, code_spec, transactions>>

NextCoder == GenerateCode

SpecCoder == InitCoder /\ [][NextCoder]_vars

\* ------------------------------ the in-memory transactions service
\* simple_lib.rs: every handler locks the one std Mutex for its whole body
\* and awaits nothing while it holds it, so each handler is one step

\* simple_lib.rs:71-83, list_user_transactions: the values of the map,
\* collected without looking at user_id
list_user_transactions(map, user_id) == MapValues(map)

InitSimple == AuthIdle /\ CollabIdle

\* simple_lib.rs:33-55, POST /transactions
CreateTransaction ==
    /\ Cardinality(transactions) < MaxSimpleTx
    /\ next_uuid < UnknownTxId
    /\ \E user_id \in TxUsers :
            transactions' = MapInsert(transactions, next_uuid,
                [id |-> next_uuid,
                 user_id |-> user_id,
                 amount |-> TxAmount,
                 to_address |-> TxToAddress,
                 from_address |-> None,
                 token_symbol |-> None,
                 tx_hash |-> None,
                 status |-> "Pending",
                 created_at |-> now,
                 updated_at |-> now])
    /\ next_uuid' = next_uuid + 1
    /\ UNCHANGED <<settings, now, users, redis, reqs>>
    /\ UNCHANGED <<mem_vars, card_vars, tx_vars, coder_vars>>

\* simple_lib.rs:85-98, PATCH /transactions/:id: the record with its new
\* status, or NOT_FOUND with the map as it was
UpdateTransaction ==
    /\ \E id \in {e.key : e \in transactions} \cup {UnknownTxId},
          status \in TransactionStatus :
            LET tx == MapGet(transactions, id)
            IN  IF tx.some
                THEN transactions' = MapInsert(transactions, id,
                        [tx.val EXCEPT !.status = status,
                                       !.updated_at = now])
                ELSE UNCHANGED transactions
    /\ UNCHANGED <<auth_vars, mem_vars, card_vars, tx_vars, coder_vars>>

\* simple_lib.rs:57-69, GET /transactions/:id
GetTransaction ==
    \E id \in {e.key : e \in transactions} \cup {UnknownTxId} :
        LET found == MapGet(transactions, id)
        IN  UNCHANGED vars

\* simple_lib.rs:71-83, GET /transactions/user/:user_id
ListUserTransactions ==
    \E user_id \in TxUsers :
        LET txs == list_user_transactions(transactions, user_id)
        IN  UNCHANGED vars

NextSimple ==
    \/ CreateTransaction
    \/ UpdateTransaction
    \/ GetTransaction
    \/ ListUserTransactions
    \/ Tick

SpecSimple == InitSimple /\ [][NextSimple]_vars

\* ===================================================================== claims
Subjects == {a.sub : a \in Accounts}

UsersWithSub(s) == {u \in users : u.google_sub = s}

\* request r carries subject s and is past user resolution: its lookup was
\* answered and, when the user was absent, its insert was answered too
PastResolution(r, s) ==
    /\ reqs[r].user_info.sub = s
    /\ reqs[r].pc \in {"open_session", "issue_jwt", "done"}
    /\ reqs[r].failed_at # "find_user"
    /\ reqs[r].failed_at = "create_user" => reqs[r].conflict

\* C1: whatever the interleaving of the callbacks that carry one provider
\* subject, there are never two User records with that subject, and once one
\* of the callbacks is past user resolution there is exactly one.
C1_ExactlyOneUserPerSubject ==
    \A s \in Subjects :
        /\ Cardinality(UsersWithSub(s)) <= 1
        /\ (\E r \in Req : PastResolution(r, s))
                => Cardinality(UsersWithSub(s)) = 1

\* all callbacks carried s1, all found no user and went on to create_user,
\* and all have ended
C1_Witness ==
    \A r \in Req :
        /\ reqs[r].pc = "done"
        /\ reqs[r].user_info.sub = "s1"
        /\ \E i \in 1 .. Len(reqs[r].steps) : reqs[r].steps[i] = "create_user"

\* C2: a callback whose create_user hits the uniqueness constraint does not
\* fail: it completes with the existing record, so every callback of the race
\* succeeds with the same user id.
C2_ConflictFallsBackToExisting ==
    \A r \in Req :
        reqs[r].conflict =>
            /\ reqs[r].failed_at = "none"
            /\ reqs[r].pc = "done" =>
                    /\ "access_token" \in DOMAIN reqs[r].response
                    /\ reqs[r].user \in UsersWithSub(reqs[r].user_info.sub)

\* C3: the steps a callback has executed are in program order with none
\* repeated and none skipped but create_user (skipped when the user is found);
\* a failed step is the last step executed, and a user, a session or a token
\* made by the request has its step in the request's log.
StepIndex(step) == CHOOSE i \in 1 .. Len(StepOrder) : StepOrder[i] = step

InLog(r, step) ==
    \E i \in 1 .. Len(reqs[r].steps) : reqs[r].steps[i] = step

C3_StepsInOrderUntilFirstFailure ==
    \A r \in Req :
        LET st == reqs[r].steps
        IN  /\ \A i \in 1 .. Len(st) : st[i] \in Steps
            /\ \A i, j \in 1 .. Len(st) :
                    i < j => StepIndex(st[i]) < StepIndex(st[j])
            /\ \A i \in 1 .. Len(st) :
                    \A k \in 1 .. (StepIndex(st[i]) - 1) :
                        StepOrder[k] # "create_user"
                            => InLog(r, StepOrder[k])
            /\ reqs[r].failed_at # "none" =>
                    /\ reqs[r].pc = "done"
                    /\ Len(st) > 0
                    /\ st[Len(st)] = reqs[r].failed_at
            /\ reqs[r].created => InLog(r, "create_user")
            /\ reqs[r].session_id # <<>> => InLog(r, "create_session")
            /\ "access_token" \in DOMAIN reqs[r].response
                    => st[Len(st)] = "issue_jwt"
            /\ reqs[r].pc = "done" /\ reqs[r].failed_at = "none"
                    => st[Len(st)] = "issue_jwt"

\* a callback created its user and then failed at session creation, the
\* eighth step
C3_Witness ==
    \E r \in Req :
        /\ reqs[r].failed_at = "create_session"
        /\ reqs[r].created
        /\ Len(reqs[r].steps) = 8

\* C4: a finished callback answers either {access_token, session_id} or
\* {error}; the error kind is the kind of the step that failed, and no two
\* steps answer the same kind.
C4_OneErrorKindPerStep ==
    /\ \A s1, s2 \in Steps :
            s1 # s2 => CallbackErrorKind(s1) # CallbackErrorKind(s2)
    /\ \A r \in Req :
            /\ reqs[r].pc = "done" =>
                    \/ /\ DOMAIN reqs[r].response = {"access_token", "session_id"}
                       /\ reqs[r].failed_at = "none"
                    \/ /\ DOMAIN reqs[r].response = {"error"}
                       /\ reqs[r].failed_at \in Steps
            /\ reqs[r].pc # "done" => reqs[r].response = NoResponse
    /\ \A r1, r2 \in Req :
            "error" \in DOMAIN reqs[r1].response
                /\ "error" \in DOMAIN reqs[r2].response
            => (reqs[r1].response.error = reqs[r2].response.error
                    <=> reqs[r1].failed_at = reqs[r2].failed_at)

\* one callback failed at session creation and another at token issuance
C4_Witness ==
    \E r1, r2 \in Req :
        /\ reqs[r1].failed_at = "create_session"
        /\ reqs[r2].failed_at = "issue_jwt"
        /\ reqs[r1].response.error # reqs[r2].response.error

\* C5: when session creation or the session-store connection fails in a
\* callback that created a User, the record stays in the repository as it was
\* created, and a callback that looks the same subject up afterwards gets that
\* record (or a lookup error) and does not go on to create_user.
SessionStepFailed(r) ==
    reqs[r].failed_at \in {"connect_session_store", "create_session"}

C5_UserStays ==
    \A r \in Req :
        SessionStepFailed(r) /\ reqs[r].created => reqs[r].user \in users

C5_RetryResolves ==
    \A r1, r2 \in Req :
        /\ SessionStepFailed(r1) /\ reqs[r1].created
        /\ reqs[r2].pc = "find_user"
        /\ reqs[r2].user_info.sub = reqs[r1].user_info.sub
        /\ reqs'[r2].pc # "find_user"
        => /\ users' = users
           /\ \/ reqs'[r2].failed_at = "find_user"
              \/ /\ reqs'[r2].pc = "open_session"
                 /\ reqs'[r2].user = reqs[r1].user

C5_NoRollbackRetryConverges ==
    [] C5_UserStays /\ [][C5_RetryResolves]_vars

\* the first callback created the user and failed at session creation; the
\* second, for the same subject, ended with tokens for that user without
\* creating one
C5_Witness ==
    \E r1, r2 \in Req :
        /\ reqs[r1].failed_at = "create_session"
        /\ reqs[r1].created
        /\ "access_token" \in DOMAIN reqs[r2].response
        /\ ~ reqs[r2].created
        /\ reqs[r2].user = reqs[r1].user
        /\ Cardinality(users) = 1


\* ------------------------------------------------- sessions and credentials
HasTokens(r) == "access_token" \in DOMAIN reqs[r].response
HasSession(r) == reqs[r].session_id # <<>>
SessionLive(r) == now < reqs[r].session_at + SessionTtlSecs
RestoredNow(session_id) == restore_session(redis, session_id, now)

\* C6: a successful callback answers a session handle and a credential that
\* both name the user it resolved: while the session is within its TTL the
\* handle restores to that user's id, and while the token is within its
\* lifetime verify answers that id's string form; the user is a stored
\* record of the subject, inserted by this callback when its lookup found
\* none (first login) and otherwise the record its lookup found (repeat).
C6_TokensNameResolvedUser ==
    \A r \in Req :
        HasTokens(r) =>
            LET u == reqs[r].user
                resp == reqs[r].response
            IN  /\ u \in UsersWithSub(reqs[r].user_info.sub)
                /\ resp.session_id = reqs[r].session_id
                /\ SessionLive(r) => RestoredNow(resp.session_id) = Some(u.id)
                /\ now < reqs[r].jwt_at + JwtLifetimeSecs =>
                        /\ VerifyTokenResponse(resp.access_token)
                                = [user_id |-> uuid_to_string(u.id)]
                        /\ uuid_parse_str(
                                VerifyTokenResponse(resp.access_token).user_id)
                                = Some(u.id)
                /\ reqs[r].created <=> InLog(r, "create_user")
                /\ reqs[r].created => u.id \notin
                        {reqs[r2].user.id : r2 \in {x \in Req :
                            x # r /\ reqs[x].created}}

\* a first login that created the user and a repeat login that found it,
\* both answered, both sessions within their TTL, some time after the first
C6_Witness ==
    \E r1, r2 \in Req :
        /\ HasTokens(r1) /\ reqs[r1].created
        /\ HasTokens(r2) /\ ~ reqs[r2].created
        /\ reqs[r2].user = reqs[r1].user
        /\ reqs[r2].session_at > reqs[r1].session_at
        /\ SessionLive(r1) /\ SessionLive(r2)

\* C7: the handle create_session returned restores to the user id it was
\* created for at every moment within its TTL, whatever sessions were created
\* since.
C7_SessionRoundTrip ==
    \A r \in Req :
        HasSession(r) /\ SessionLive(r)
            => RestoredNow(reqs[r].session_id) = Some(reqs[r].user.id)

\* a session made at the start is one second from its expiry and a session of
\* another user was made after it
C7_Witness ==
    \E r1, r2 \in Req :
        /\ HasSession(r1) /\ reqs[r1].session_at = 0
        /\ now = SessionTtlSecs - 1
        /\ HasSession(r2) /\ reqs[r2].session_at > 0
        /\ reqs[r2].user.id # reqs[r1].user.id
        /\ RestoredNow(reqs[r1].session_id) = Some(reqs[r1].user.id)

\* C8: a handle that was never issued and a handle that was issued and has
\* expired restore alike: restore_session answers absent for both and the
\* restore endpoint answers the same response for both, session_not_found
\* when the store answers.
NeverIssued(h) == \A r \in Req : reqs[r].session_id # h

IssuedAndExpired(h) ==
    \E r \in Req :
        /\ reqs[r].session_id = h
        /\ now >= reqs[r].session_at + SessionTtlSecs

C8_SessionMissUniform ==
    \A h1, h2 \in HandleInputs :
        NeverIssued(h1) /\ IssuedAndExpired(h2) =>
            /\ RestoredNow(h1) = None
            /\ RestoredNow(h2) = None
            /\ \A so \in StoreOutcomes, ro \in RepoOutcomes :
                    RestoreSessionResponse(h1, so, ro)
                        = RestoreSessionResponse(h2, so, ro)
            /\ \A ro \in RepoOutcomes :
                    RestoreSessionResponse(h2, "ok", ro)
                        = [error |-> "session_not_found"]

\* an issued handle has expired while another session is still live
C8_Witness ==
    \E r1, r2 \in Req :
        /\ IssuedAndExpired(reqs[r1].session_id)
        /\ HasSession(r2) /\ SessionLive(r2)
        /\ RestoreSessionResponse(reqs[r1].session_id, "ok", "ok")
                = [error |-> "session_not_found"]

\* C9: a session expires 24 hours (86400 seconds) after create_session and
\* nothing moves that instant: the stored entry keeps the expiry it was
\* written with, the handle restores to its user at every time before it and
\* is absent at every time from it on.
C9_SessionExpiryFixed ==
    \A r \in Req :
        HasSession(r) =>
            /\ \A e \in redis :
                    e.key = SessionKey(reqs[r].session_id)
                        => e.expire_at = reqs[r].session_at + 86400
            /\ now < reqs[r].session_at + 86400
                    => RestoredNow(reqs[r].session_id) = Some(reqs[r].user.id)
            /\ now >= reqs[r].session_at + 86400
                    => RestoredNow(reqs[r].session_id) = None

\* exactly 24 hours after a session was made at the start it is absent
C9_Witness ==
    \E r \in Req :
        /\ HasSession(r) /\ reqs[r].session_at = 0
        /\ now = 86400
        /\ RestoredNow(reqs[r].session_id) = None
        /\ \E e \in redis : e.key = SessionKey(reqs[r].session_id)

\* C10: for every user id and secret, a token verified with the issuing
\* secret at the instant it was issued is accepted and its subject is the
\* string form of the user id; verified with another secret it is refused.
\* The token a callback has just answered verifies to its user.
UuidSamples == {0, next_uuid, Pow16(UuidDigits) - 1} \cap UuidSpace

C10_TokenRoundTrip ==
    /\ \A u \in UuidSamples, s1, s2 \in Secrets :
            LET token == create_jwt(u, s1, now)
            IN  /\ verify_jwt(token, s1, now).ok
                /\ verify_jwt(token, s1, now).val.sub = uuid_to_string(u)
                /\ uuid_parse_str(verify_jwt(token, s1, now).val.sub) = Some(u)
                /\ s2 # s1 => ~ verify_jwt(token, s2, now).ok
    /\ \A r \in Req :
            HasTokens(r) /\ now = reqs[r].jwt_at =>
                /\ VerifyTokenResponse(reqs[r].response.access_token)
                        = [user_id |-> uuid_to_string(reqs[r].user.id)]
                /\ \A s2 \in Secrets \ {settings.jwt_secret} :
                        ~ verify_jwt(reqs[r].response.access_token, s2, now).ok

\* a callback has just answered a token, issued some time after the start
C10_Witness ==
    \E r \in Req :
        /\ HasTokens(r)
        /\ reqs[r].jwt_at = now
        /\ now > 0
        /\ reqs[r].user.id > 0

\* -------------------------------------------------------- verify and restore
\* the signature of a presented token is the one the configured secret and
\* the HS256 header give for its header and payload
SignatureValid(token) ==
    /\ token # MalformedToken
    /\ token.header.alg = "HS256"
    /\ token.signature = Mac(settings.jwt_secret, token.header, token.payload)

\* C11: verify succeeds if and only if the signature of the token is valid
\* for the configured secret and algorithm and the current time is strictly
\* before the token's expiry; every other token, one whose expiry has passed
\* by any amount included, is answered invalid_token.
C11_VerifyIffSignedAndUnexpired ==
    \A token \in TokenInputs :
        LET accepted == SignatureValid(token) /\ now < token.payload.exp
        IN  /\ verify_jwt(token, settings.jwt_secret, now).ok <=> accepted
            /\ ~ accepted
                => VerifyTokenResponse(token) = [error |-> "invalid_token"]

\* C12: what verify answers for a token depends on the token, the configured
\* secret and the current time only: a step that leaves the settings and the
\* clock as they are, whatever it does to the users table, the session store
\* and the requests, leaves the answer for every presented token as it was;
\* and a credential within its lifetime is accepted whether or not the
\* session made with it is still in the store.
C12_SameAnswerAcrossStores ==
    \A token \in TokenInputs :
        settings' = settings /\ now' = now
            => VerifyTokenResponse(token)' = VerifyTokenResponse(token)

C12_UnexpiredStaysValid ==
    \A r \in Req :
        HasTokens(r) /\ now < reqs[r].response.access_token.payload.exp
            => VerifyTokenResponse(reqs[r].response.access_token)
                    = [user_id |-> reqs[r].response.access_token.payload.sub]

C12_VerifyIgnoresStores ==
    [] C12_UnexpiredStaysValid /\ [][C12_SameAnswerAcrossStores]_vars

\* a credential is within its lifetime and accepted although its session has
\* expired, and since it was issued another callback has inserted a user and
\* made a session
C12_Witness ==
    \E r1, r2 \in Req :
        /\ HasTokens(r1)
        /\ now < reqs[r1].response.access_token.payload.exp
        /\ RestoredNow(reqs[r1].session_id) = None
        /\ "user_id" \in DOMAIN VerifyTokenResponse(reqs[r1].response.access_token)
        /\ reqs[r2].created /\ reqs[r2].user.created_at > reqs[r1].jwt_at
        /\ HasSession(r2) /\ reqs[r2].session_at > reqs[r1].jwt_at

\* the handle's key is absent from the session store (or has expired)
SessionMissing(h) == RestoredNow(h) = None

\* the session of the handle is in the store and no user row has its user id
UserMissing(h) ==
    /\ RestoredNow(h) # None
    /\ get_user(users, RestoredNow(h).val) = None

\* C13: restore answers the same 'not found' result for a handle that is
\* missing from the session store and for a handle whose session exists but
\* whose user record is missing from the repository.
C13_NotFoundUniform ==
    \A h1, h2 \in HandleInputs :
        SessionMissing(h1) /\ UserMissing(h2) =>
            RestoreSessionResponse(h1, "ok", "ok")
                = RestoreSessionResponse(h2, "ok", "ok")

\* the store cannot be contacted (the client cannot be opened) or the
\* connection or the read fails
StoreFailed(store_outcome) ==
    ~ SessionStoreNew(settings.redis_url).ok \/ store_outcome # "ok"

StoreErrorKinds == {"redis_connection_failed", "session_restore_failed"}

\* C14: when the session store cannot be contacted or the read fails, restore
\* answers a store error kind and never session_not_found; when the store
\* answers that the key is absent, restore answers session_not_found and
\* never a store error kind; session_not_found is answered in no other case.
C14_StoreErrorNotSessionMiss ==
    \A h \in HandleInputs, so \in StoreOutcomes, ro \in RepoOutcomes :
        LET resp == RestoreSessionResponse(h, so, ro)
        IN  /\ StoreFailed(so) =>
                    /\ DOMAIN resp = {"error"}
                    /\ resp.error \in StoreErrorKinds
                    /\ resp.error # "session_not_found"
            /\ ~ StoreFailed(so) /\ SessionMissing(h) =>
                    /\ resp = [error |-> "session_not_found"]
                    /\ resp.error \notin StoreErrorKinds
            /\ resp = [error |-> "session_not_found"] =>
                    ~ StoreFailed(so) /\ SessionMissing(h)

\* the store can be opened and holds one handle and not another: for the
\* absent handle a failed read is answered session_restore_failed and an
\* answered read session_not_found
C14_Witness ==
    \E h1, h2 \in HandleInputs :
        /\ SessionStoreNew(settings.redis_url).ok
        /\ SessionMissing(h1) /\ ~ SessionMissing(h2)
        /\ RestoreSessionResponse(h1, "unreachable", "ok")
                = [error |-> "session_restore_failed"]
        /\ RestoreSessionResponse(h1, "ok", "ok")
                = [error |-> "session_not_found"]
        /\ now > 0

\* ------------------------------------------------------------ users and ids
UserIds(table) == {u.id : u \in table}

\* C15: in every reachable state of the users table the internal ids of the
\* users of distinct provider subjects are pairwise distinct, and every
\* create_user that inserts a row gives it an id that no user had before.
C15_IdsDistinct ==
    \A u1, u2 \in users :
        u1.google_sub # u2.google_sub => u1.id # u2.id

C15_NewIdIsFresh ==
    users' # users =>
        \E row \in users' :
            /\ users' = users \cup {row}
            /\ row.id \notin UserIds(users)

C15_SubjectToIdInjective ==
    [] C15_IdsDistinct /\ [][C15_NewIdIsFresh]_vars

\* two callbacks for two subjects have each created their user and ended
C15_Witness ==
    \E r1, r2 \in Req :
        /\ reqs[r1].created /\ reqs[r2].created
        /\ reqs[r1].pc = "done" /\ reqs[r2].pc = "done"
        /\ reqs[r1].user.google_sub # reqs[r2].user.google_sub
        /\ {reqs[r1].user, reqs[r2].user} = users

\* request r found the user of its subject in the repository
FoundExisting(r) ==
    /\ reqs[r].user # NoUser
    /\ ~ reqs[r].created

\* C16: a user is created at most once per provider subject and its record
\* never changes: every step keeps every stored record (id, subject, email,
\* creation time) as it is, and a callback whose subject has a user goes on
\* with that stored record, writes nothing to the users table and answers a
\* token for that user's id, also when its profile carries another email.
C16_OncePerSubject ==
    /\ \A s \in Subjects : Cardinality(UsersWithSub(s)) <= 1
    /\ \A r \in Req :
            FoundExisting(r) =>
                /\ reqs[r].user \in UsersWithSub(reqs[r].user_info.sub)
                /\ HasTokens(r) =>
                        reqs[r].response.access_token.payload.sub
                            = uuid_to_string(reqs[r].user.id)

C16_RecordsKept ==
    /\ users \subseteq users'
    /\ \A r \in Req :
            reqs[r].pc = "find_user" /\ reqs'[r].pc = "open_session" =>
                /\ users' = users
                /\ reqs'[r].user \in UsersWithSub(reqs[r].user_info.sub)

C16_UserImmutable ==
    [] C16_OncePerSubject /\ [][C16_RecordsKept]_vars

\* a callback whose profile is {s1, e2} found the user stored with {s1, e1}
\* and was answered tokens for it; the stored record still has e1
C16_Witness ==
    \E r \in Req :
        /\ FoundExisting(r) /\ HasTokens(r)
        /\ reqs[r].user_info = [sub |-> "s1", email |-> "e2"]
        /\ reqs[r].user.email = "e1"
        /\ users = {reqs[r].user}

\* ------------------------------------------------------------ profile errors
\* C17: a callback that ends at the profile request because the transport
\* failed or the provider answered a non-2xx status answers
\* user_info_fetch_failed; user_info_parse_failed is answered only for a 2xx
\* response whose body is not {sub, email}; in both cases no user was
\* resolved and no session was made.
C17_EndsAtProfile ==
    \A r \in Req :
        reqs[r].pc \in {"fetch_profile", "parse_profile"}
            /\ reqs'[r].pc = "done" =>
            /\ reqs[r].pc = "fetch_profile" \/ reqs[r].http = "non_2xx"
                    => reqs'[r].response = [error |-> "user_info_fetch_failed"]
            /\ reqs'[r].response = [error |-> "user_info_parse_failed"]
                    => reqs[r].http = "2xx_other_body"
            /\ reqs'[r].user = NoUser
            /\ reqs'[r].session_id = <<>>
            /\ users' = users
            /\ redis' = redis

C17_ProfileErrorKinds == [][C17_EndsAtProfile]_vars

\* ------------------------------------------------------------ error payloads
\* the string literals the handlers put under "error"
ErrorKinds ==
    {CallbackErrorKind(step) : step \in Steps}
        \cup {"invalid_token", "session_restore_failed", "session_not_found",
              "user_lookup_failed", "user_not_found"}

\* the strings that are secret or personal: signing and client secrets,
\* profile subjects and emails
SecretStrings ==
    Secrets \cup {settings.jwt_secret, settings.google_client_secret}
        \cup {a.sub : a \in Accounts} \cup {a.email : a \in Accounts}

\* an error payload is {"error": kind} and nothing else
KindOnly(resp) ==
    "error" \in DOMAIN resp =>
        /\ DOMAIN resp = {"error"}
        /\ resp.error \in ErrorKinds
        /\ resp.error \notin SecretStrings

\* C18: every error response of login-start, callback, verify and restore is
\* the error kind alone: it has the one field "error", whose value is one of
\* the fixed kind names and none of the secret strings, so it carries no
\* provider token, credential, session handle, signing secret or profile
\* data; this holds too for a callback that fails after it made a session.
C18_ErrorsCarryKindOnly ==
    /\ \A r \in Req : KindOnly(reqs[r].response)
    /\ \A csrf \in CsrfTokens : KindOnly(GoogleLoginResponse(csrf))
    /\ \A token \in TokenInputs : KindOnly(VerifyTokenResponse(token))
    /\ \A h \in HandleInputs, so \in StoreOutcomes, ro \in RepoOutcomes :
            KindOnly(RestoreSessionResponse(h, so, ro))

\* a callback made a session and then failed at token issuance, while another
\* holds a credential whose tampered copies verify refuses
C18_Witness ==
    \E r1, r2 \in Req :
        /\ reqs[r1].failed_at = "issue_jwt"
        /\ HasSession(r1)
        /\ reqs[r1].response = [error |-> "jwt_issue_failed"]
        /\ HasTokens(r2)
        /\ \E token \in TokenInputs :
                VerifyTokenResponse(token) = [error |-> "invalid_token"]

\* ------------------------------------------------------- concurrent sessions
CredentialLive(r) == now < reqs[r].response.access_token.payload.exp

\* C19: a user may hold several sessions and credentials at once: the handles
\* of two callbacks are different, also for one user; a session within its
\* TTL restores to its user and a credential before its expiry verifies to
\* its user whatever other sessions of the user have been made or have
\* expired; and a step that writes to the session store keeps every entry
\* that was there.
C19_SessionsIndependent ==
    /\ \A r1, r2 \in Req :
            r1 # r2 /\ HasSession(r1) /\ HasSession(r2) =>
                /\ reqs[r1].session_id # reqs[r2].session_id
                /\ SessionLive(r1) =>
                        RestoredNow(reqs[r1].session_id)
                            = Some(reqs[r1].user.id)
                /\ HasTokens(r1) /\ CredentialLive(r1) =>
                        VerifyTokenResponse(reqs[r1].response.access_token)
                            = [user_id |-> uuid_to_string(reqs[r1].user.id)]

C19_NewSessionKeepsOthers ==
    redis' # redis =>
        /\ redis \subseteq redis'
        /\ \A r \in Req :
                HasSession(r) /\ SessionLive(r) =>
                    RestoredNow(reqs[r].session_id)'
                        = RestoredNow(reqs[r].session_id)

C19_ManySessionsPerUser ==
    [] C19_SessionsIndependent /\ [][C19_NewSessionKeepsOthers]_vars

\* one user logged in twice: the first session has expired, the second, made
\* later, restores to the user, and the second credential verifies
C19_Witness ==
    \E r1, r2 \in Req :
        /\ HasTokens(r1) /\ HasTokens(r2)
        /\ reqs[r1].user = reqs[r2].user
        /\ reqs[r1].session_id # reqs[r2].session_id
        /\ ~ SessionLive(r1)
        /\ SessionLive(r2)
        /\ RestoredNow(reqs[r2].session_id) = Some(reqs[r2].user.id)
        /\ CredentialLive(r2)

\* ------------------------------------------------------------ handle binding
\* the user ids the handle is bound to in the store at time t
OwnersAt(h, t) ==
    {e.value : e \in {x \in redis : x.key = SessionKey(h) /\ t < x.expire_at}}

\* C20: in every reachable state a handle is bound to at most one user id
\* (one id, or absent), the id is that of a stored user, and restore answers
\* exactly that binding; and no step rebinds or removes a binding before its
\* TTL has passed: an entry that is unexpired after the step is in the store
\* with the same user id and the same expiry as before.
C20_OneOwner ==
    /\ \A e1, e2 \in redis : e1.key = e2.key => e1 = e2
    /\ \A h \in HandleInputs :
            /\ Cardinality(OwnersAt(h, now)) <= 1
            /\ \A v \in OwnersAt(h, now) :
                    /\ RestoredNow(h) = uuid_parse_str(v)
                    /\ RestoredNow(h) # None
                    /\ RestoredNow(h).val \in UserIds(users)
            /\ OwnersAt(h, now) = {} => RestoredNow(h) = None

C20_OwnerKept ==
    \A e \in redis :
        now' < e.expire_at =>
            /\ e \in redis'
            /\ \A e2 \in redis' : e2.key = e.key => e2 = e

C20_HandleBindingFixed ==
    [] C20_OneOwner /\ [][C20_OwnerKept]_vars

\* two callbacks of two users made their sessions at the same instant; one
\* second before the TTL both handles restore to their own user
C20_Witness ==
    \E r1, r2 \in Req :
        /\ HasSession(r1) /\ HasSession(r2)
        /\ reqs[r1].user.id # reqs[r2].user.id
        /\ reqs[r1].session_at = reqs[r2].session_at
        /\ now = reqs[r1].session_at + SessionTtlSecs - 1
        /\ RestoredNow(reqs[r1].session_id) = Some(reqs[r1].user.id)
        /\ RestoredNow(reqs[r2].session_id) = Some(reqs[r2].user.id)

\* ------------------------------------------------------- anti-forgery state
\* C21: the callback does not validate the state parameter: for a request in
\* any position, the first step of the callback gives the same record and so
\* the same outcome whether the state is absent, a value login-start issued
\* or any other value; and login-start keeps nothing of the state it issued:
\* its step leaves every variable as it was.
C21_StateIgnored ==
    \A r \in Req, st1, st2 \in QueryStates :
        CallbackBegin(reqs[r], st1) = CallbackBegin(reqs[r], st2)

C21_LoginStartKeepsNothing == GoogleLogin => UNCHANGED vars

C21_StateNeverValidated ==
    [] C21_StateIgnored /\ [][C21_LoginStartKeepsNothing]_vars

\* one callback was answered tokens and another is past its first step, the
\* step being the same for a state no login-start issued and for none at all
C21_Witness ==
    \E r1, r2 \in Req :
        /\ HasTokens(r1)
        /\ reqs[r2].pc = "exchange_code"
        /\ reqs[r2] = CallbackBegin(IdleReq, "other")
        /\ reqs[r2] = CallbackBegin(IdleReq, "absent")
        /\ reqs[r2] = CallbackBegin(IdleReq, "x1")

\* ------------------------------------------------------------------ no retry
\* how many times request r executed the step
TimesDone(r, step) ==
    Cardinality({i \in 1 .. Len(reqs[r].steps) : reqs[r].steps[i] = step})

RequestsThatDid(step) == {r \in Req : InLog(r, step)}

\* C22: no step of a callback is retried: a callback executes the token
\* exchange, the profile fetch, the user insert, the session write and the
\* signing at most once each, whatever fails; the users table has no more
\* rows and the session store no more entries than callbacks that executed
\* the insert and the session write; and a callback that has answered takes
\* no further step.
C22_EachStepOnce ==
    /\ \A r \in Req, step \in Steps : TimesDone(r, step) <= 1
    /\ Cardinality(users) <= Cardinality(RequestsThatDid("create_user"))
    /\ Cardinality(redis) <= Cardinality(RequestsThatDid("create_session"))
    /\ next_uuid <= Cardinality(RequestsThatDid("create_user"))
                        + Cardinality(RequestsThatDid("create_session"))

C22_AnsweredIsFinal ==
    \A r \in Req : reqs[r].pc = "done" => reqs'[r] = reqs[r]

C22_NoRetry ==
    [] C22_EachStepOnce /\ [][C22_AnsweredIsFinal]_vars

\* one callback failed at the token exchange and another, after its insert,
\* at the session write: each executed its failed step once and has ended
C22_Witness ==
    \E r1, r2 \in Req :
        /\ reqs[r1].failed_at = "exchange_code"
        /\ TimesDone(r1, "exchange_code") = 1
        /\ reqs[r2].failed_at = "create_session"
        /\ reqs[r2].created
        /\ TimesDone(r2, "create_user") = 1
        /\ TimesDone(r2, "create_session") = 1
        /\ reqs[r1].pc = "done" /\ reqs[r2].pc = "done"

\* ------------------------------------------------------------ read-only flows
\* C23: login-start, verify and restore, answered with a result or with an
\* error, leave the users table and the session store (keys, owners,
\* expiries) exactly as they were; and restore asks the repository only after
\* the session store answered a user id: when the store fails or the session
\* is missing, the answer does not depend on the repository.
C23_ReadOnlyStep ==
    GoogleLogin \/ VerifyToken \/ RestoreSession
        => /\ users' = users
           /\ redis' = redis

C23_RepositoryAfterStore ==
    \A h \in HandleInputs, so \in StoreOutcomes :
        StoreFailed(so) \/ SessionMissing(h) =>
            \A ro1, ro2 \in RepoOutcomes :
                RestoreSessionResponse(h, so, ro1)
                    = RestoreSessionResponse(h, so, ro2)

C23_ReadOnlyFlowsChangeNothing ==
    [] C23_RepositoryAfterStore /\ [][C23_ReadOnlyStep]_vars

\* some time after a login both stores are not empty: restore answers the
\* user for the live handle and session_not_found for another, verify
\* answers the credential's user
C23_Witness ==
    \E r \in Req :
        /\ HasTokens(r) /\ SessionLive(r) /\ now > 0
        /\ users # {} /\ redis # {}
        /\ RestoreSessionResponse(reqs[r].session_id, "ok", "ok")
                = [user |-> reqs[r].user]
        /\ RestoreSessionResponse(<<"z", "z">>, "ok", "ok")
                = [error |-> "session_not_found"]
        /\ "user_id" \in DOMAIN
                VerifyTokenResponse(reqs[r].response.access_token)

\* ----------------------------------------------------------------- termination
Arrived(r) == reqs[r].pc # "idle"
Answered(r) == reqs[r].pc = "done"

\* the one response of an answered request: the tokens, or a named error
WellFormedResponse(r) ==
    \/ /\ DOMAIN reqs[r].response = {"access_token", "session_id"}
       /\ reqs[r].failed_at = "none"
       /\ reqs[r].steps[Len(reqs[r].steps)] = "issue_jwt"
    \/ /\ DOMAIN reqs[r].response = {"error"}
       /\ reqs[r].response.error \in ErrorKinds
       /\ reqs[r].failed_at \in Steps

\* C24: with every provider, repository and session-store call returning,
\* every callback that has arrived is eventually answered; the answer is one
\* well-formed response, the tokens after the signing step or a named error,
\* and a request has no response before it is answered; and no request waits
\* on another: a request that has arrived and is not answered can take its
\* next step whatever the other requests are doing.
C24_OneResponse ==
    \A r \in Req :
        /\ Answered(r) => WellFormedResponse(r)
        /\ ~ Answered(r) => reqs[r].response = NoResponse
        /\ Arrived(r) /\ ~ Answered(r) => ENABLED RequestStep(r)

C24_EveryCallbackAnswered ==
    /\ [] C24_OneResponse
    /\ \A r \in Req : Arrived(r) ~> Answered(r)

\* both callbacks are answered, one with tokens and one with an error
C24_Witness ==
    \E r1, r2 \in Req :
        /\ Answered(r1) /\ HasTokens(r1)
        /\ Answered(r2) /\ "error" \in DOMAIN reqs[r2].response

\* -------------------------------------------------------- credential isolation
Contains(text, pat) ==
    \E i \in 1 .. (Len(text) - Len(pat) + 1) :
        SubSeq(text, i, i + Len(pat) - 1) = pat

\* the handles restore answers a user for
Restorable == {h \in HandleInputs :
                    "user" \in DOMAIN RestoreSessionResponse(h, "ok", "ok")}

RestoredText(h) ==
    SerializeRestoreResponse(RestoreSessionResponse(h, "ok", "ok"))

\* C25: for every user, the serialized record that restore returns does not
\* contain the substring access_token nor the substring refresh_token.
C25_NoCredentialSubstrings ==
    \A h \in Restorable :
        /\ ~ Contains(RestoredText(h), KeyAccessToken)
        /\ ~ Contains(RestoredText(h), KeyRefreshToken)

\* C25 as amended: the record restore returns has the four fields id,
\* google_sub, email and created_at and no other, and its serialized text
\* contains access_token or refresh_token exactly when the user's own
\* subject or email, as the provider gave them, contains it: no field name
\* and no other field brings either substring in.
C25_OnlyProfileFields ==
    \A h \in Restorable :
        LET u == RestoreSessionResponse(h, "ok", "ok").user
        IN  /\ DOMAIN u = {"id", "google_sub", "email", "created_at"}
            /\ u \in users
            /\ \A pat \in {KeyAccessToken, KeyRefreshToken} :
                    Contains(RestoredText(h), pat)
                        <=> Contains(u.google_sub, pat) \/ Contains(u.email, pat)

\* restore answers two users: the text of one has no access_token in it,
\* the text of the other has, from the user's email
C25_Witness ==
    \E h1, h2 \in Restorable :
        /\ ~ Contains(RestoredText(h1), KeyAccessToken)
        /\ Contains(RestoredText(h2), KeyAccessToken)
        /\ Contains(RestoreSessionResponse(h2, "ok", "ok").user.email,
                    KeyAccessToken)

\* ------------------------------------------------------ in-memory repository
MemUsersWithSub(s) == {u \in MapValues(mem_users) : u.google_sub = s}

CreateReturned(c) ==
    mem_calls[c].op = "create_user" /\ mem_calls[c].pc = "done"

\* C26: after any interleaving of create_user calls on the in-memory
\* repository at most one stored user has any given google_sub: a create_user
\* for a subject that is already stored does not add a second record.
C26_MemOneUserPerSubject ==
    \A s \in Subjects : Cardinality(MemUsersWithSub(s)) <= 1

\* C27: for every user a completed create_user returned, a find_by_google_sub
\* of its subject made afterwards, after any other create_user calls, answers
\* a user with the id create_user returned, and get_user of that id answers
\* that user.
C27_MemRoundTrip ==
    \A c \in Caller :
        CreateReturned(c) =>
            LET created == mem_calls[c].result.val
                found == MemFind(sub_index, mem_users, created.google_sub)
            IN  /\ found.some
                /\ found.val.id = created.id
                /\ MapGet(mem_users, created.id) = Some(created)

\* the update_card calls on card_id that have returned
UpdatesDone(card_id) ==
    {c \in Caller : /\ card_calls[c].op = "update_card"
                    /\ card_calls[c].pc = "done"
                    /\ card_calls[c].card_id = card_id}

\* the version create_card returned for card_id
FirstVersion(card_id) ==
    LET creator == CHOOSE c \in Caller :
                        /\ card_calls[c].op = "create_card"
                        /\ card_calls[c].pc = "done"
                        /\ card_calls[c].card_id = card_id
    IN  card_calls[creator].result.val

\* C28: once create_card has returned a card and k update_card calls on it
\* have returned, in whatever order concurrent callers were served, the
\* history of the card has exactly k + 1 entries, its first entry is still the
\* version create_card returned, the entries are numbered 1, 2, .. k + 1 in
\* insertion order, and every update's returned version sits at its number
C28_HistoryDense ==
    \A card_id \in KnownCardIds :
        LET h == history(versions, card_id)
            k == Cardinality(UpdatesDone(card_id))
        IN  /\ Len(h) = k + 1
            /\ h[1] = FirstVersion(card_id)
            /\ \A i \in 1 .. Len(h) : h[i].version = i
            /\ \A c \in UpdatesDone(card_id) :
                    /\ card_calls[c].result.some
                    /\ card_calls[c].result.val.version \in 2 .. Len(h)
                    /\ h[card_calls[c].result.val.version]
                            = card_calls[c].result.val

\* two updates of one card have returned and its history has three entries
C28_Witness ==
    \E card_id \in KnownCardIds :
        /\ Cardinality(UpdatesDone(card_id)) = 2
        /\ Len(history(versions, card_id)) = 3

\* the record_transaction calls that have returned
RecordsDone ==
    {c \in Caller : /\ tx_calls[c].op = "record_transaction"
                    /\ tx_calls[c].pc = "done"}

\* every record record_transaction has returned is Pending with equal
\* creation and update instants
C29_ReturnedPending ==
    \A c \in RecordsDone :
        /\ tx_calls[c].result.some
        /\ tx_calls[c].result.val.status = "Pending"
        /\ tx_calls[c].result.val.created_at
                = tx_calls[c].result.val.updated_at

\* the step in which update_status(id, s) runs on an id the store holds
\* returns the record with status s, and the record read back from the store
\* right after the step is the returned one, with status s
C29_UpdateStep ==
    \A c \in Caller :
        (/\ tx_calls[c].op = "update_status"
         /\ tx_calls[c].pc = "write"
         /\ tx_calls'[c].pc = "done"
         /\ MapGet(records, tx_calls[c].id).some)
        => /\ tx_calls'[c].result.some
           /\ tx_calls'[c].result.val.status = tx_calls[c].status
           /\ tx_calls'[c].result.val.id = tx_calls[c].id
           /\ MapGet(records', tx_calls[c].id) = tx_calls'[c].result
           /\ MapGet(records', tx_calls[c].id).val.status = tx_calls[c].status

\* C29: every record returned by record_transaction has status Pending and
\* created_at equal to updated_at; update_status(id, s) on an existing id
\* returns the record with status s and stores it, so a read that follows the
\* update shows status s
C29_Lifecycle == []C29_ReturnedPending /\ [][C29_UpdateStep]_vars

\* a record was returned Pending and an update of it to Confirmed has
\* returned at a later instant, the store now showing Confirmed
C29_Witness ==
    \E c \in RecordsDone, d \in Caller :
        /\ tx_calls[d].op = "update_status"
        /\ tx_calls[d].pc = "done"
        /\ tx_calls[d].id = tx_calls[c].id
        /\ tx_calls[d].status = "Confirmed"
        /\ tx_calls[d].result.some
        /\ tx_calls[d].result.val.updated_at
                > tx_calls[d].result.val.created_at
        /\ MapGet(records, tx_calls[c].id).val.status = "Confirmed"

\* the record_transaction calls for user_id that have returned
RecordsDoneFor(user_id) ==
    {c \in RecordsDone : tx_calls[c].built.user_id = user_id}

\* C30: whatever other users' calls and update_status calls were interleaved,
\* list_by_user(u) returns every record that record_transaction created for u
\* and no record of another user, so after n such calls have returned its
\* length is n
C30_ListExactlyOwn ==
    \A user_id \in TxUsers :
        LET listed == list_by_user(records, user_id)
        IN  /\ \A record \in listed : record.user_id = user_id
            /\ {record.id : record \in listed}
                    = {tx_calls[c].id : c \in RecordsDoneFor(user_id)}
            /\ Cardinality(listed) = Cardinality(RecordsDoneFor(user_id))

\* both users have a record, one of them updated since, and each listing
\* holds exactly the one record of its user
C30_Witness ==
    /\ \A user_id \in TxUsers :
            /\ Cardinality(RecordsDoneFor(user_id)) = 1
            /\ Cardinality(list_by_user(records, user_id)) = 1
    /\ \E d \in Caller :
            /\ tx_calls[d].op = "update_status"
            /\ tx_calls[d].pc = "done"
            /\ tx_calls[d].result.some
            /\ tx_calls[d].result.val.status # "Pending"

\* the callbacks whose token issuance failed after their session was written
JwtFailed == {r \in Req : reqs[r].failed_at = "issue_jwt"}

\* C33: a callback whose token issuance fails after its session was created
\* answers with the token-issue error alone, its session handle in no
\* response of any request, and the session it wrote is not removed: the
\* handle keeps resolving to the user until 24 hours after it was written
C33_OrphanSessionKept ==
    \A r \in JwtFailed :
        /\ reqs[r].response = [error |-> "jwt_issue_failed"]
        /\ \A q \in Req :
                "session_id" \in DOMAIN reqs[q].response
                    => reqs[q].response.session_id # reqs[r].session_id
        /\ \E e \in redis : e.key = SessionKey(reqs[r].session_id)
        /\ now < reqs[r].session_at + SessionTtlSecs
                => restore_session(redis, reqs[r].session_id, now)
                        = Some(reqs[r].user.id)
        /\ now >= reqs[r].session_at + SessionTtlSecs
                => restore_session(redis, reqs[r].session_id, now) = None

\* token issuance has failed and the session of that callback still
\* resolves to its user at a later instant
C33_Witness ==
    \E r \in JwtFailed :
        /\ now > reqs[r].session_at
        /\ restore_session(redis, reqs[r].session_id, now)
                = Some(reqs[r].user.id)

\* the update_status calls that have returned a record
UpdatesApplied ==
    {c \in Caller : /\ tx_calls[c].op = "update_status"
                    /\ tx_calls[c].pc = "done"
                    /\ tx_calls[c].result.some}

\* C34: update_status imposes no lifecycle order: the step in which
\* update_status(id, s) runs on a record the store holds succeeds whatever
\* the record's current status and whatever s, the stored record afterwards
\* is the earlier one with only status and updated_at replaced, and every
\* other record of the store is as it was
C34_NoLifecycleOrder ==
    [][\A c \in Caller :
        (/\ tx_calls[c].op = "update_status"
         /\ tx_calls[c].pc = "write"
         /\ tx_calls'[c].pc = "done"
         /\ MapGet(records, tx_calls[c].id).some)
        => LET before == MapGet(records, tx_calls[c].id).val
               after == MapGet(records', tx_calls[c].id)
           IN  /\ tx_calls'[c].result.some
               /\ after = Some([before EXCEPT !.status = tx_calls[c].status,
                                              !.updated_at = now])
               /\ {e \in records' : e.key # tx_calls[c].id}
                    = {e \in records : e.key # tx_calls[c].id}
               /\ {e.key : e \in records'} = {e.key : e \in records}]_vars

\* a record was moved to Confirmed and, at a later instant, back to Pending,
\* which is what the store now shows
C34_Witness ==
    \E c, d \in UpdatesApplied :
        /\ tx_calls[c].id = tx_calls[d].id
        /\ tx_calls[c].status = "Confirmed"
        /\ tx_calls[d].status = "Pending"
        /\ tx_calls[d].result.val.updated_at
                > tx_calls[c].result.val.updated_at
        /\ MapGet(records, tx_calls[d].id).val.status = "Pending"

\* the update_card calls that have returned None
UpdatesRefused ==
    {c \in Caller : /\ card_calls[c].op = "update_card"
                    /\ card_calls[c].pc = "done"
                    /\ ~ card_calls[c].result.some}

\* the step in which update_card runs on an id the map does not hold returns
\* None, generates no id and leaves the whole map as it was
C36_RefusedStep ==
    \A c \in Caller :
        (/\ card_calls[c].op = "update_card"
         /\ card_calls[c].pc = "write"
         /\ card_calls'[c].pc = "done"
         /\ ~ MapGet(versions, card_calls[c].card_id).some)
        => /\ card_calls'[c].result = None
           /\ versions' = versions
           /\ next_uuid' = next_uuid
           /\ history(versions', card_calls[c].card_id) = <<>>

\* C36: update_card on a card id that was never created returns None and
\* changes nothing: no history exists for that id afterwards (history
\* returns the empty list) and the history of every existing card is as it
\* was before the call
C36_UnknownCardUntouched ==
    /\ [](\A c \in Caller :
            (card_calls[c].op = "update_card" /\ card_calls[c].pc = "done"
                /\ card_calls[c].card_id = UnknownCardId)
            => /\ c \in UpdatesRefused
               /\ history(versions, UnknownCardId) = <<>>)
    /\ [][C36_RefusedStep]_vars

\* an update of an unknown id was refused while a card with an updated
\* history of two versions is in the store
C36_Witness ==
    \E c \in UpdatesRefused :
        /\ card_calls[c].card_id = UnknownCardId
        /\ history(versions, UnknownCardId) = <<>>
        /\ \E card_id \in KnownCardIds :
                Len(history(versions, card_id)) = 2

\* the calls on the in-memory repository that were made and have not returned
MemInFlight == {c \in Caller : mem_calls[c].pc \notin {"idle", "done"}}

\* C37: concurrent create_user, find_by_google_sub and get_user calls on one
\* in-memory repository never deadlock: while a call is in flight some call
\* in flight can take its next step, and every call that was made returns
C37_EveryCallReturns ==
    /\ [](MemInFlight # {} => \E c \in MemInFlight : ENABLED MemStep(c))
    /\ \A c \in Caller :
            (c \in MemInFlight) ~> (mem_calls[c].pc = "done")

\* a create_user waits for the write guard of the subject index while a
\* find_by_google_sub holds its read guard and goes on to the user map
C37_Witness ==
    \E c, d \in MemInFlight :
        /\ mem_calls[c].op = "create_user"
        /\ mem_calls[c].pc = "index_write"
        /\ mem_calls[d].op = "find_by_google_sub"
        /\ d \in index_readers
        /\ ~ ENABLED MemCreateIndex(c)

\* the text holds one of the two screened phrases
Screened(text) ==
    StrContains(text, PhraseRmRf) \/ StrContains(text, PhraseDropDatabase)

C32_ManualModeNeverPasses ==
    (generated.some /\ ~ code_spec.auto_mode)
        => ~ generated.val.security_passed

\* code was generated outside auto mode for a description of at least ten
\* characters with neither screened phrase, and it did not pass
C32_Witness ==
    /\ generated.some
    /\ ~ code_spec.auto_mode
    /\ Len(code_spec.description) >= 10
    /\ ~ Screened(generated.val.code)
    /\ ~ generated.val.security_passed

\* C35: in the in-memory transactions service the listing of a user returns
\* only the transactions whose user_id is the user id of the path: a
\* transaction created for one user is in no other user's listing
C35_ListingOnlyOwn ==
    \A user_id \in TxUsers :
        \A tx \in list_user_transactions(transactions, user_id) :
            tx.user_id = user_id

====
